---- MODULE Spec2Model ----
(***************************************************************************)
(* Verification model of the BCI signal-processing core:                   *)
(*   - the command classifier (src/src/classifier.c),                      *)
(*   - the feature extractor  (src/src/feature_extraction.c),              *)
(*   - the FFT engine         (src/src/fft.c).                             *)
(*                                                                         *)
(* The C code computes in `float`.  The model computes in exact rational   *)
(* arithmetic: a real value is a pair <<n, d>> with d > 0 in lowest terms, *)
(* so that equal values are equal states.                                  *)
(***************************************************************************)
EXTENDS Integers, Sequences, FiniteSets, TLC

(***************************************************************************)
(* Exact rational arithmetic (the model's reading of `float`).             *)
(***************************************************************************)
Abs(x) == IF x < 0 THEN -x ELSE x

RECURSIVE GCD(_, _)
GCD(a, b) == IF b = 0 THEN a ELSE GCD(b, a % b)

Norm(r) ==
    LET s == IF r[2] < 0 THEN -1 ELSE 1
        n == s * r[1]
        d == s * r[2]
        g == GCD(Abs(n), d)
    IN  <<n \div g, d \div g>>

Rat(n, d) == Norm(<<n, d>>)
RInt(n) == <<n, 1>>
RAdd(a, b) == Norm(<<a[1] * b[2] + b[1] * a[2], a[2] * b[2]>>)
RSub(a, b) == Norm(<<a[1] * b[2] - b[1] * a[2], a[2] * b[2]>>)
RMul(a, b) == Norm(<<a[1] * b[1], a[2] * b[2]>>)
RDiv(a, b) == Norm(<<a[1] * b[2], a[2] * b[1]>>)
RNeg(a) == <<-a[1], a[2]>>
RAbs(a) == <<Abs(a[1]), a[2]>>
RLt(a, b) == a[1] * b[2] < b[1] * a[2]
RLe(a, b) == a[1] * b[2] <= b[1] * a[2]
RGt(a, b) == RLt(b, a)
RGe(a, b) == RLe(b, a)

(***************************************************************************)
(* Configuration (src/include/config.h) and enumerations (types.h).        *)
(***************************************************************************)
CMD_NONE == "NONE"
CMD_FOCUS == "FOCUS"
CMD_RELAX == "RELAX"
CMD_BLINK == "BLINK"
command_t == {CMD_NONE, CMD_FOCUS, CMD_RELAX, CMD_BLINK}

FOCUS_THRESHOLD == Rat(6, 10)
RELAX_THRESHOLD == Rat(6, 10)
BLINK_THRESHOLD == Rat(3, 1)
DEBOUNCE_COUNT == 2
PRED_NORMAL == "NORMAL"
PRED_BORDERLINE == "BORDERLINE"
PRED_IMPAIRED == "IMPAIRED"
VISUAL_ALPHA_NORMAL == Rat(35, 100)
VISUAL_ALPHA_BORDERLINE == Rat(25, 100)
MOTOR_BETA_NORMAL == Rat(30, 100)
MOTOR_BETA_BORDERLINE == Rat(20, 100)
ATTENTION_RATIO_NORMAL == Rat(15, 10)
ATTENTION_RATIO_BORDER == Rat(2, 1)
SAMPLING_RATE == 256
CURSOR_MAX_X == 10
CURSOR_MAX_Y == 10
ALPHA_LOW_FREQ == 8
ALPHA_HIGH_FREQ == 13
BETA_LOW_FREQ == 13
BETA_HIGH_FREQ == 30

(***************************************************************************)
(* Bounds of the model.                                                    *)
(***************************************************************************)
MaxCalls == 5
MaxSignalLen == 2
MaxFFTSize == 4
MaxFFTCalls == 2
MaxSamples == 2
MaxWindowLen == 3
MaxBits == 6
MaxIterations == 5
MaxLoaderCalls == 3
MaxOverrun == 1

\* Sample values of the buffers given to the feature extractor and the FFT.
SampleValues == {-2, 0, 1}
FFTSampleValues == {-1, 2}

(***************************************************************************)
(* Feature vectors presented to the classifier: the vectors of             *)
(* tests/test_classifier.c, the neutral vector of an all-zero buffer, and  *)
(* two vectors whose peak lies near 3 x baseline so that baseline          *)
(* adaptation changes their candidate.                                     *)
(***************************************************************************)
Feat(a, b, p) == [alpha_power |-> a, beta_power |-> b, peak_amplitude |-> p]

ClassifierInputs ==
    { Feat(Rat(3, 10), Rat(7, 10), Rat(2, 1)),
      Feat(Rat(7, 10), Rat(3, 10), Rat(5, 2)),
      Feat(Rat(5, 10), Rat(5, 10), Rat(500, 1)),
      Feat(Rat(7, 10), Rat(7, 10), Rat(500, 1)),
      Feat(Rat(5, 10), Rat(5, 10), Rat(29, 10)),
      Feat(Rat(5, 10), Rat(5, 10), Rat(0, 1)),
      Feat(Rat(3, 10), Rat(7, 10), Rat(33, 10)) }

VARIABLES
    state,        \* classifier_state_t of the session
    trace,        \* one record per classify_command call made so far
    window,       \* the signal window given to extract_features
    extraction,   \* the result of extract_features on the window, once made
    fft_result,   \* the caller's buffer that fft_compute writes
    ifft_result,  \* the caller's buffer that fft_inverse writes
    error_log,    \* what log_error has reported so far
    fft_trace,    \* one record per fft_compute / fft_inverse call
    model,        \* the lda_model_t of the session
    training_set, \* the caller's array of labelled samples
    lda_last,     \* the last LDA call: its arguments, result and effect
    band_input,   \* the signal window and the build of a band-power session
    band_last,    \* the last band-power call: its arguments and outcome
    predictions,  \* the caller's predictions_t
    health_last,  \* the last predict_impairments call
    bitrev_input, \* the index and the bit width handed to bit_reverse
    bitrev_last,  \* the last bit_reverse call
    output_state, \* the output_state_t of the demo loop
    demo_loop,    \* which demo loop runs, and its iteration count
    demo_last,    \* the last iteration: command, state after execute_command, display
    unassigned,   \* what an unassigned field of the caller's features_t holds
    pipe_last,    \* the predict_impairments call on the extracted features
    g_data_config, \* the static data_config_t of data_loader.c
    g_initialized, \* the static initialised flag of data_loader.c
    loader_trace, \* one record per data loader call
    prep_length,  \* the length handed to a preprocessing call
    prep_last     \* the preprocessing call made: the indices it accessed

vars == <<state, trace, window, extraction, fft_result, ifft_result, error_log,
          fft_trace, model, training_set, lda_last, band_input, band_last,
          predictions, health_last,
          bitrev_input, bitrev_last,
          output_state, demo_loop, demo_last,
          unassigned, pipe_last,
          g_data_config, g_initialized, loader_trace,
          prep_length, prep_last>>
classifier_vars == <<state, trace>>
feature_vars == <<window, extraction>>
fft_vars == <<fft_result, ifft_result, error_log, fft_trace>>
lda_vars == <<model, training_set, lda_last>>
band_vars == <<band_input, band_last>>
health_vars == <<predictions, health_last>>
bitrev_vars == <<bitrev_input, bitrev_last>>
demo_vars == <<output_state, demo_loop, demo_last>>
pipe_vars == <<unassigned, pipe_last>>
loader_vars == <<g_data_config, g_initialized, loader_trace>>
prep_vars == <<prep_length, prep_last>>

(***************************************************************************)
(* classifier.c                                                            *)
(***************************************************************************)
classifier_init ==
    [last_command |-> CMD_NONE,
     debounce_counter |-> 0,
     baseline_amplitude |-> Rat(1, 1)]

\* Faulty variant: the previous baseline is dropped from the average.
update_baseline_no_memory(st, amplitude) ==
    LET alpha == Rat(1, 10)
    IN  [st EXCEPT !.baseline_amplitude = RMul(alpha, amplitude)]

update_baseline(st, amplitude) ==
    LET alpha == Rat(1, 10)
    IN  [st EXCEPT !.baseline_amplitude =
            RAdd(RMul(alpha, amplitude),
                 RMul(RSub(RInt(1), alpha), st.baseline_amplitude))]

\* The three rules of classify_command, each as the code tests it.
BlinkRule(features, st) ==
    RGt(features.peak_amplitude, RMul(BLINK_THRESHOLD, st.baseline_amplitude))
FocusRule(features) == RGt(features.beta_power, FOCUS_THRESHOLD)
RelaxRule(features) == RGt(features.alpha_power, RELAX_THRESHOLD)

\* Faulty variant: FOCUS and RELAX are tested before BLINK.
DetectCommand_focus_first(features, st) ==
    IF FocusRule(features) THEN CMD_FOCUS
    ELSE IF RelaxRule(features) THEN CMD_RELAX
    ELSE IF BlinkRule(features, st) THEN CMD_BLINK
    ELSE CMD_NONE

\* detected_command of classify_command: the priority chain.
DetectCommand(features, st) ==
    IF BlinkRule(features, st) THEN CMD_BLINK
    ELSE IF FocusRule(features) THEN CMD_FOCUS
    ELSE IF RelaxRule(features) THEN CMD_RELAX
    ELSE CMD_NONE

\* Faulty variant: a changed candidate restarts the counter at 0.
Debounce_from_zero(detected, st) ==
    IF detected = st.last_command
    THEN [st EXCEPT !.debounce_counter = @ + 1]
    ELSE [st EXCEPT !.debounce_counter = 0, !.last_command = detected]

\* Faulty variant: the counter is incremented on a changed candidate too.
Debounce_no_reset(detected, st) ==
    IF detected = st.last_command
    THEN [st EXCEPT !.debounce_counter = @ + 1]
    ELSE [st EXCEPT !.debounce_counter = @ + 1, !.last_command = detected]

\* The debouncing step of classify_command.
Debounce(detected, st) ==
    IF detected = st.last_command
    THEN [st EXCEPT !.debounce_counter = @ + 1]
    ELSE [st EXCEPT !.debounce_counter = 1, !.last_command = detected]

\* Faulty variant: the baseline is updated on a confirmed BLINK as well.
Emit_blink_updates(features, detected, st) ==
    IF st.debounce_counter >= DEBOUNCE_COUNT
    THEN [state |-> update_baseline(st, features.peak_amplitude),
          ret |-> detected]
    ELSE [state |-> st, ret |-> CMD_NONE]

\* Faulty variant: the threshold test is strict.
Emit_strict(features, detected, st) ==
    IF st.debounce_counter > DEBOUNCE_COUNT
    THEN [state |-> IF detected # CMD_BLINK
                    THEN update_baseline(st, features.peak_amplitude)
                    ELSE st,
          ret |-> detected]
    ELSE [state |-> st, ret |-> CMD_NONE]

\* Faulty variant: the threshold is one too low.
Emit_early(features, detected, st) ==
    IF st.debounce_counter >= DEBOUNCE_COUNT - 1
    THEN [state |-> IF detected # CMD_BLINK
                    THEN update_baseline(st, features.peak_amplitude)
                    ELSE st,
          ret |-> detected]
    ELSE [state |-> st, ret |-> CMD_NONE]

\* Faulty variant: the command is returned only on the call that reaches the
\* threshold.
Emit_one_shot(features, detected, st) ==
    IF st.debounce_counter = DEBOUNCE_COUNT
    THEN [state |-> IF detected # CMD_BLINK
                    THEN update_baseline(st, features.peak_amplitude)
                    ELSE st,
          ret |-> detected]
    ELSE [state |-> st, ret |-> CMD_NONE]

\* The emission step of classify_command, applied to the debounced state.
Emit(features, detected, st) ==
    IF st.debounce_counter >= DEBOUNCE_COUNT
    THEN [state |-> IF detected # CMD_BLINK
                    THEN update_baseline(st, features.peak_amplitude)
                    ELSE st,
          ret |-> detected]
    ELSE [state |-> st, ret |-> CMD_NONE]

\* classify_command: the new state and the returned command.
classify_command(features, st) ==
    LET detected == DetectCommand(features, st)
    IN  Emit(features, detected, Debounce(detected, st))

(***************************************************************************)
(* feature_extraction.c                                                    *)
(*                                                                         *)
(* A signal is a sequence of integer samples.  A float division by a zero  *)
(* length is 0/0, which the model keeps apart as NaN.                      *)
(***************************************************************************)
NaN == <<0, 0>>

RECURSIVE SumSeq(_, _)
SumSeq(signal, i) ==
    IF i > Len(signal) THEN RInt(0)
    ELSE RAdd(RInt(signal[i]), SumSeq(signal, i + 1))

calculate_mean(signal, length) ==
    IF length = 0 THEN NaN ELSE RDiv(SumSeq(signal, 1), RInt(length))

RECURSIVE SumSqDiff(_, _, _)
SumSqDiff(signal, mean, i) ==
    IF i > Len(signal) THEN RInt(0)
    ELSE LET diff == RSub(RInt(signal[i]), mean)
         IN  RAdd(RMul(diff, diff), SumSqDiff(signal, mean, i + 1))

calculate_variance(signal, length) ==
    IF length = 0 THEN NaN
    ELSE RDiv(SumSqDiff(signal, calculate_mean(signal, length), 1),
              RInt(length))

RECURSIVE detect_peak_from(_, _, _)
detect_peak_from(signal, i, max_amplitude) ==
    IF i > Len(signal) THEN max_amplitude
    ELSE LET abs_val == RAbs(RInt(signal[i]))
         IN  detect_peak_from(signal, i + 1,
                 IF RGt(abs_val, max_amplitude) THEN abs_val
                 ELSE max_amplitude)

detect_peak_amplitude(signal, length) == detect_peak_from(signal, 1, RInt(0))

\* The values calculate_band_power returns: frequency_resolution times a sum
\* of squared magnitudes, hence never negative.  The set holds values on both
\* sides of the 0.01 epsilon of extract_features.
BandPowers == { Rat(0, 1), Rat(1, 200), Rat(1, 100), Rat(3, 200),
                Rat(3, 1), Rat(7, 1) }

\* Faulty variant: the band powers are stored without the normalisation.
extract_features_unnormalised(signal, length, band) ==
    [alpha_power |-> band.alpha,
     beta_power |-> band.beta,
     peak_amplitude |-> detect_peak_amplitude(signal, length),
     variance |-> calculate_variance(signal, length)]

\* Faulty variant: only alpha is divided by the total.
extract_features_alpha_only(signal, length, band) ==
    LET total_power == RAdd(band.alpha, band.beta)
        normal == RGt(total_power, Rat(1, 100))
    IN  [alpha_power |-> IF normal THEN RDiv(band.alpha, total_power)
                         ELSE Rat(1, 2),
         beta_power |-> IF normal THEN band.beta ELSE Rat(1, 2),
         peak_amplitude |-> detect_peak_amplitude(signal, length),
         variance |-> calculate_variance(signal, length)]

\* extract_features; band.alpha and band.beta are the results of its two
\* calculate_band_power calls.
extract_features(signal, length, band) ==
    LET total_power == RAdd(band.alpha, band.beta)
        normal == RGt(total_power, Rat(1, 100))
    IN  [alpha_power |-> IF normal THEN RDiv(band.alpha, total_power)
                         ELSE Rat(1, 2),
         beta_power |-> IF normal THEN RDiv(band.beta, total_power)
                        ELSE Rat(1, 2),
         peak_amplitude |-> detect_peak_amplitude(signal, length),
         variance |-> calculate_variance(signal, length)]

(***************************************************************************)
(* fft.c                                                                   *)
(*                                                                         *)
(* A buffer cell is a complex number, or unwritten.  Buffers have          *)
(* MaxFFTSize cells, numbered from 1 (cell i+1 is element i of the C       *)
(* array).                                                                 *)
(***************************************************************************)
Unwritten == [init |-> FALSE, real |-> RInt(0), imag |-> RInt(0)]
complex_create(real, imag) == [init |-> TRUE, real |-> real, imag |-> imag]
complex_add(a, b) ==
    complex_create(RAdd(a.real, b.real), RAdd(a.imag, b.imag))
complex_sub(a, b) ==
    complex_create(RSub(a.real, b.real), RSub(a.imag, b.imag))
complex_mul(a, b) ==
    complex_create(RSub(RMul(a.real, b.real), RMul(a.imag, b.imag)),
                   RAdd(RMul(a.real, b.imag), RMul(a.imag, b.real)))

FreshBuffer == [i \in 1..MaxFFTSize |-> Unwritten]

\* log_error appends its report to the error log.
log_error(log, kind) == Append(log, kind)

RECURSIVE BitAnd(_, _)
BitAnd(a, b) ==
    IF a = 0 \/ b = 0 THEN 0
    ELSE (a % 2) * (b % 2) + 2 * BitAnd(a \div 2, b \div 2)

is_power_of_2(n) == n > 0 /\ BitAnd(n, n - 1) = 0

RECURSIVE Shl(_, _)
Shl(x, i) == IF i = 0 THEN x ELSE Shl(2 * x, i - 1)

RECURSIVE bit_reverse_from(_, _, _, _)
bit_reverse_from(n, bits, i, reversed) ==
    IF i >= bits THEN reversed
    ELSE bit_reverse_from(n, bits, i + 1,
             IF BitAnd(n, Shl(1, i)) # 0
             THEN reversed + Shl(1, bits - 1 - i)
             ELSE reversed)

\* Faulty variant: the loop starts at bit 1.
bit_reverse_from_one(n, bits) == bit_reverse_from(n, bits, 1, 0)

bit_reverse(n, bits) == bit_reverse_from(n, bits, 0, 0)

\* The loop `while (temp > 1) { bits++; temp >>= 1; }`.
RECURSIVE CountBits(_)
CountBits(temp) == IF temp > 1 THEN 1 + CountBits(temp \div 2) ELSE 0

\* (cosf(angle), sinf(angle)) for angle = -2*pi/m, exact for m = 2 and m = 4.
Twiddle(m) ==
    CASE m = 2 -> complex_create(RInt(-1), RInt(0))
      [] m = 4 -> complex_create(RInt(0), RInt(-1))

\* The loop over j of one block: the butterflies.
RECURSIVE ButterflyJ(_, _, _, _, _, _)
ButterflyJ(output, k, j, m2, w, wm) ==
    IF j >= m2 THEN output
    ELSE LET t == complex_mul(w, output[k + j + m2 + 1])
             u == output[k + j + 1]
         IN  ButterflyJ([output EXCEPT ![k + j + 1] = complex_add(u, t),
                                       ![k + j + m2 + 1] = complex_sub(u, t)],
                        k, j + 1, m2, complex_mul(w, wm), wm)

\* The loop over the blocks k of one stage.
RECURSIVE ButterflyK(_, _, _, _, _)
ButterflyK(output, k, n, m, wm) ==
    IF k >= n THEN output
    ELSE ButterflyK(ButterflyJ(output, k, 0, m \div 2,
                               complex_create(RInt(1), RInt(0)), wm),
                    k + m, n, m, wm)

\* The loop over the stages.
RECURSIVE Stages(_, _, _, _)
Stages(output, stage, bits, n) ==
    IF stage > bits THEN output
    ELSE Stages(ButterflyK(output, 0, n, Shl(1, stage),
                           Twiddle(Shl(1, stage))),
                stage + 1, bits, n)

\* The bit-reversal permutation of fft_compute.
RECURSIVE PermuteReal(_, _, _, _, _)
PermuteReal(output, input, i, n, bits) ==
    IF i >= n THEN output
    ELSE PermuteReal(
             [output EXCEPT ![bit_reverse(i, bits) + 1] =
                 complex_create(input[i + 1], RInt(0))],
             input, i + 1, n, bits)

\* The bit-reversal permutation with conjugation of fft_inverse.
RECURSIVE PermuteConj(_, _, _, _, _)
PermuteConj(output, input, i, n, bits) ==
    IF i >= n THEN output
    ELSE PermuteConj(
             [output EXCEPT ![bit_reverse(i, bits) + 1] =
                 complex_create(input[i + 1].real, RNeg(input[i + 1].imag))],
             input, i + 1, n, bits)

\* The final scaling and conjugation of fft_inverse.
ScaleConj(output, n) ==
    LET scale == Rat(1, n)
    IN  [i \in 1..MaxFFTSize |->
            IF i <= n
            THEN complex_create(RMul(output[i].real, scale),
                                RMul(output[i].imag, RNeg(scale)))
            ELSE output[i]]

\* Faulty variant: the size is checked after the permutation has been written.
fft_compute_late_check(input, output, log, n) ==
    LET bits == CountBits(n)
        permuted == PermuteReal(output, input, 0, n, bits)
    IN  IF ~is_power_of_2(n)
        THEN [output |-> permuted, log |-> log_error(log, "ConfigError")]
        ELSE [output |-> Stages(permuted, 1, bits, n), log |-> log]

\* fft_compute: the output buffer and the error log after the call.
fft_compute(input, output, log, n) ==
    IF ~is_power_of_2(n)
    THEN [output |-> output, log |-> log_error(log, "ConfigError")]
    ELSE LET bits == CountBits(n)
         IN  [output |-> Stages(PermuteReal(output, input, 0, n, bits),
                                1, bits, n),
              log |-> log]

\* Faulty variant: the result is conjugated but not divided by n.
fft_inverse_unscaled(input, output, log, n) ==
    IF ~is_power_of_2(n)
    THEN [output |-> output, log |-> log_error(log, "ConfigError")]
    ELSE LET bits == CountBits(n)
         IN  [output |-> ScaleConj(
                             Stages(PermuteConj(output, input, 0, n, bits),
                                    1, bits, n), 1),
              log |-> log]

\* fft_inverse: the output buffer and the error log after the call.
fft_inverse(input, output, log, n) ==
    IF ~is_power_of_2(n)
    THEN [output |-> output, log |-> log_error(log, "ConfigError")]
    ELSE LET bits == CountBits(n)
         IN  [output |-> ScaleConj(
                             Stages(PermuteConj(output, input, 0, n, bits),
                                    1, bits, n), n),
              log |-> log]

(***************************************************************************)
(* fft.c: the power spectrum and the band power                            *)
(***************************************************************************)
RECURSIVE BitOr(_, _)
BitOr(a, b) ==
    IF a = 0 THEN b
    ELSE IF b = 0 THEN a
    ELSE (IF a % 2 = 1 \/ b % 2 = 1 THEN 1 ELSE 0)
         + 2 * BitOr(a \div 2, b \div 2)

\* n |= n >> k
OrShr(n, k) == BitOr(n, n \div Shl(1, k))

next_power_of_2(n) ==
    IF n = 0 THEN 1
    ELSE OrShr(OrShr(OrShr(OrShr(OrShr(n - 1, 1), 2), 4), 8), 16) + 1

\* 0.5f * (1.0f - cosf(2 * M_PI * i / (length - 1))), exact for the lengths
\* 2, 3 and 4, where the cosine is 1, -1 or -1/2.
HanningCoefficient(i, length) ==
    CASE length = 2 -> RInt(0)
      [] length = 3 -> IF i = 1 THEN RInt(1) ELSE RInt(0)
      [] length = 4 -> IF i \in {1, 2} THEN Rat(3, 4) ELSE RInt(0)

\* apply_hanning_window on the first length cells of the buffer.
apply_hanning_window(signal, length) ==
    [i \in 1..Len(signal) |->
        IF i <= length
        THEN RMul(signal[i], HanningCoefficient(i - 1, length))
        ELSE signal[i]]

complex_magnitude_squared(c) ==
    RAdd(RMul(c.real, c.real), RMul(c.imag, c.imag))

\* A power_spectrum_t.  power and frequencies hold the array contents;
\* written tells whether the loop over the bins has filled them.
NoSpectrum ==
    [num_bins |-> 0, frequency_resolution |-> RInt(0),
     power_null |-> TRUE, frequencies_null |-> TRUE, written |-> FALSE,
     power |-> <<>>, frequencies |-> <<>>]

\* Faulty variant: the Nyquist bin is doubled like the inner bins.
calculate_power_spectrum_nyquist_doubled(fft, n, sampling_rate, power_ok, frequencies_ok, log) ==
    LET num_bins == n \div 2 + 1
        frequency_resolution == Rat(sampling_rate, n)
        failed == ~power_ok \/ ~frequencies_ok
    IN  [spectrum |->
            [num_bins |-> num_bins,
             frequency_resolution |-> frequency_resolution,
             power_null |-> ~power_ok,
             frequencies_null |-> ~frequencies_ok,
             written |-> ~failed,
             frequencies |->
                 IF failed THEN <<>>
                 ELSE [b \in 1..num_bins |->
                          RMul(RInt(b - 1), frequency_resolution)],
             power |->
                 IF failed THEN <<>>
                 ELSE [b \in 1..num_bins |->
                          LET magnitude_sq ==
                                  complex_magnitude_squared(fft[b])
                          IN  IF b - 1 = 0
                              THEN RDiv(magnitude_sq, RInt(n * n))
                              ELSE RDiv(RMul(RInt(2), magnitude_sq),
                                        RInt(n * n))]],
         log |-> IF failed THEN log_error(log, "AllocError") ELSE log]

\* calculate_power_spectrum on a non-null spectrum.  power_ok and
\* frequencies_ok: the outcome of the two malloc calls.
calculate_power_spectrum(fft, n, sampling_rate, power_ok, frequencies_ok, log) ==
    LET num_bins == n \div 2 + 1
        frequency_resolution == Rat(sampling_rate, n)
        failed == ~power_ok \/ ~frequencies_ok
    IN  [spectrum |->
            [num_bins |-> num_bins,
             frequency_resolution |-> frequency_resolution,
             power_null |-> ~power_ok,
             frequencies_null |-> ~frequencies_ok,
             written |-> ~failed,
             frequencies |->
                 IF failed THEN <<>>
                 ELSE [b \in 1..num_bins |->
                          RMul(RInt(b - 1), frequency_resolution)],
             power |->
                 IF failed THEN <<>>
                 ELSE [b \in 1..num_bins |->
                          LET magnitude_sq ==
                                  complex_magnitude_squared(fft[b])
                          IN  IF b - 1 = 0 \/ b - 1 = n \div 2
                              THEN RDiv(magnitude_sq, RInt(n * n))
                              ELSE RDiv(RMul(RInt(2), magnitude_sq),
                                        RInt(n * n))]],
         log |-> IF failed THEN log_error(log, "AllocError") ELSE log]

RECURSIVE SumPower(_, _, _, _)
SumPower(spectrum, low_freq, high_freq, b) ==
    IF b > spectrum.num_bins THEN RInt(0)
    ELSE LET freq == spectrum.frequencies[b]
         IN  RAdd(IF RGe(freq, RInt(low_freq)) /\ RLe(freq, RInt(high_freq))
                  THEN spectrum.power[b] ELSE RInt(0),
                  SumPower(spectrum, low_freq, high_freq, b + 1))

\* What reading through a null frequencies pointer can do: end the process,
\* or go on with whatever lies at that address as the band power.
UBOutcomes ==
    { [crash |-> TRUE, value |-> RInt(0)],
      [crash |-> FALSE, value |-> RInt(0)],
      [crash |-> FALSE, value |-> RInt(1)] }

\* Faulty variant: a bin at high_freq is left out of the sum.
calculate_band_power_psd_exclusive(spectrum, spectrum_null, low_freq, high_freq, ub) ==
    IF spectrum_null \/ spectrum.power_null
    THEN [value |-> RInt(0), crashed |-> FALSE, null_read |-> FALSE]
    ELSE IF spectrum.num_bins > 0 /\ spectrum.frequencies_null
    THEN [value |-> ub.value, crashed |-> ub.crash, null_read |-> TRUE]
    ELSE [value |->
             RMul(SumPower(
                      [spectrum EXCEPT !.power =
                          [b \in 1..spectrum.num_bins |->
                              IF spectrum.frequencies[b] = RInt(high_freq)
                              THEN RInt(0) ELSE spectrum.power[b]]],
                      low_freq, high_freq, 1),
                  spectrum.frequency_resolution),
          crashed |-> FALSE, null_read |-> FALSE]

\* calculate_band_power_psd: the value returned, whether the process ended
\* in it, and whether it read through a null pointer.
calculate_band_power_psd(spectrum, spectrum_null, low_freq, high_freq, ub) ==
    IF spectrum_null \/ spectrum.power_null
    THEN [value |-> RInt(0), crashed |-> FALSE, null_read |-> FALSE]
    ELSE IF spectrum.num_bins > 0 /\ spectrum.frequencies_null
    THEN [value |-> ub.value, crashed |-> ub.crash, null_read |-> TRUE]
    ELSE [value |-> RMul(SumPower(spectrum, low_freq, high_freq, 1),
                         spectrum.frequency_resolution),
          crashed |-> FALSE, null_read |-> FALSE]

\* free_power_spectrum: the buffers it passes to free, in order.
free_power_spectrum(spectrum) ==
    (IF spectrum.power_null THEN <<>> ELSE <<"power">>)
    \o (IF spectrum.frequencies_null THEN <<>> ELSE <<"frequencies">>)

\* The outcome of the four allocations of one calculate_band_power_fft call.
Allocations ==
    [padded_signal : BOOLEAN, fft_result : BOOLEAN, power : BOOLEAN,
     frequencies : BOOLEAN]

NoFFTPath ==
    [ret |-> RInt(0), crashed |-> FALSE, log |-> <<>>, fft_size |-> 0,
     sampling_rate |-> 0, fft |-> <<>>, spectrum |-> NoSpectrum,
     allocated |-> {}, freed |-> <<>>, null_read |-> FALSE,
     input |-> <<>>]

\* calculate_band_power_fft: the value returned, the buffers allocated and
\* the sequence of buffers passed to free, the spectrum as it was before
\* free_power_spectrum, and the caller's input buffer after the call.
calculate_band_power_fft(signal, length, sampling_rate, low_freq, high_freq, alloc, ub, log) ==
    LET fft_size == next_power_of_2(length)
    IN  IF ~alloc.padded_signal \/ ~alloc.fft_result
        THEN [NoFFTPath EXCEPT
                 !.log = log_error(log, "AllocError"),
                 !.fft_size = fft_size,
                 !.sampling_rate = sampling_rate,
                 !.allocated =
                     (IF alloc.padded_signal THEN {"padded_signal"} ELSE {})
                     \cup (IF alloc.fft_result THEN {"fft_result"} ELSE {}),
                 !.freed =
                     (IF alloc.padded_signal THEN <<"padded_signal">>
                      ELSE <<>>)
                     \o (IF alloc.fft_result THEN <<"fft_result">>
                         ELSE <<>>),
                 !.input = signal]
        ELSE LET padded_signal ==
                     apply_hanning_window(
                         [i \in 1..fft_size |->
                             IF i <= length THEN RInt(signal[i])
                             ELSE RInt(0)],
                         length)
                 fft == fft_compute(padded_signal, FreshBuffer, log,
                                    fft_size)
                 ps == calculate_power_spectrum(fft.output, fft_size,
                                                sampling_rate, alloc.power,
                                                alloc.frequencies, fft.log)
                 band_power == calculate_band_power_psd(ps.spectrum, FALSE,
                                                        low_freq, high_freq,
                                                        ub)
             IN  [ret |-> band_power.value,
                  crashed |-> band_power.crashed,
                  log |-> ps.log,
                  fft_size |-> fft_size,
                  sampling_rate |-> sampling_rate,
                  fft |-> SubSeq(fft.output, 1, fft_size),
                  spectrum |-> ps.spectrum,
                  allocated |->
                      {"padded_signal", "fft_result"}
                      \cup (IF alloc.power THEN {"power"} ELSE {})
                      \cup (IF alloc.frequencies THEN {"frequencies"}
                            ELSE {}),
                  freed |->
                      IF band_power.crashed THEN <<>>
                      ELSE free_power_spectrum(ps.spectrum)
                           \o <<"padded_signal", "fft_result">>,
                  null_read |-> band_power.null_read,
                  input |-> signal]

(***************************************************************************)
(* feature_extraction.c: calculate_band_power                              *)
(***************************************************************************)
\* The ways config.h can set USE_FFT_BANDPOWER: 1 (as shipped), 0, or not
\* defined at all.
Builds ==
    { [defined |-> TRUE, value |-> 1],
      [defined |-> TRUE, value |-> 0],
      [defined |-> FALSE, value |-> 0] }

RECURSIVE SumSquares(_, _)
SumSquares(signal, i) ==
    IF i > Len(signal) THEN RInt(0)
    ELSE RAdd(RInt(signal[i] * signal[i]), SumSquares(signal, i + 1))

\* The sum of |signal[i] - signal[i-1]| from index i on.
RECURSIVE SumAbsDiff(_, _)
SumAbsDiff(signal, i) ==
    IF i > Len(signal) THEN RInt(0)
    ELSE RAdd(RInt(Abs(signal[i] - signal[i - 1])),
              SumAbsDiff(signal, i + 1))

\* The #else branch of calculate_band_power.
TimeDomainPower(signal, length, low_freq, high_freq) ==
    LET center_freq == Rat(low_freq + high_freq, 2)
        weighted_power ==
            IF RLt(center_freq, RInt(15))
            THEN RSub(SumSquares(signal, 1),
                      RMul(SumAbsDiff(signal, 2), Rat(1, 2)))
            ELSE RAdd(SumSquares(signal, 1),
                      RMul(SumAbsDiff(signal, 2), Rat(2, 5)))
        power == IF length = 0 THEN NaN
                 ELSE RDiv(weighted_power, RInt(length))
    IN  IF power # NaN /\ RLt(power, RInt(0)) THEN RInt(0) ELSE power

\* calculate_band_power under a build: #ifdef USE_FFT_BANDPOWER selects the
\* branch that is compiled.
calculate_band_power(signal, length, low_freq, high_freq, build, alloc, ub, log) ==
    IF build.defined
    THEN LET r == calculate_band_power_fft(signal, length, SAMPLING_RATE,
                                           low_freq, high_freq, alloc, ub,
                                           log)
         IN  [path |-> "fft", ret |-> r.ret, call |-> r]
    ELSE LET power == TimeDomainPower(signal, length, low_freq, high_freq)
         IN  [path |-> "time_domain", ret |-> power,
              call |-> [NoFFTPath EXCEPT !.ret = power, !.log = log,
                                         !.input = signal]]

(***************************************************************************)
(* classifier.c: predict_impairments                                       *)
(***************************************************************************)
Grade(value, normal, borderline) ==
    IF RGe(value, normal) THEN PRED_NORMAL
    ELSE IF RGe(value, borderline) THEN PRED_BORDERLINE
    ELSE PRED_IMPAIRED

AttentionGrade(theta_beta_ratio) ==
    IF RLe(theta_beta_ratio, ATTENTION_RATIO_NORMAL) THEN PRED_NORMAL
    ELSE IF RLe(theta_beta_ratio, ATTENTION_RATIO_BORDER)
    THEN PRED_BORDERLINE
    ELSE PRED_IMPAIRED

\* Faulty variant: the guard admits a beta_power equal to 0.01.
predict_impairments_loose_guard(features) ==
    LET divides == RGe(features.beta_power, Rat(1, 100))
        theta_beta_ratio ==
            IF divides THEN RDiv(features.theta_power, features.beta_power)
            ELSE RInt(10)
    IN  [predictions |->
            [visual_impairment |->
                 Grade(features.alpha_power, VISUAL_ALPHA_NORMAL,
                       VISUAL_ALPHA_BORDERLINE),
             motor_impairment |->
                 Grade(features.beta_power, MOTOR_BETA_NORMAL,
                       MOTOR_BETA_BORDERLINE),
             attention_deficit |-> AttentionGrade(theta_beta_ratio)],
         divisors |-> IF divides THEN {features.beta_power} ELSE {}]

\* The fields of *features that predict_impairments reads: theta_power is
\* read only on the branch that divides.
predict_impairments_reads(features) ==
    {"alpha_power", "beta_power"}
    \cup (IF RGt(features.beta_power, Rat(1, 100)) THEN {"theta_power"}
          ELSE {})

\* predict_impairments: the predictions written, and the divisors of the
\* divisions performed.
predict_impairments(features) ==
    LET divides == RGt(features.beta_power, Rat(1, 100))
        theta_beta_ratio ==
            IF divides THEN RDiv(features.theta_power, features.beta_power)
            ELSE RInt(10)
    IN  [predictions |->
            [visual_impairment |->
                 Grade(features.alpha_power, VISUAL_ALPHA_NORMAL,
                       VISUAL_ALPHA_BORDERLINE),
             motor_impairment |->
                 Grade(features.beta_power, MOTOR_BETA_NORMAL,
                       MOTOR_BETA_BORDERLINE),
             attention_deficit |-> AttentionGrade(theta_beta_ratio)],
         divisors |-> IF divides THEN {features.beta_power} ELSE {}]

(***************************************************************************)
(* output_control.c                                                        *)
(***************************************************************************)
keyboard_grid ==
    << <<"A", "B", "C", "D", "E", "F", "G", "H", "I", "J">>,
       <<"K", "L", "M", "N", "O", "P", "Q", "R", "S", "T">>,
       <<"U", "V", "W", "X", "Y", "Z", "1", "2", "3", "4">>,
       <<"5", "6", "7", "8", "9", "0", " ", ".", ",", "!">>,
       <<"?", "-", "_", "(", ")", "[", "]", "{", "}", "/">>,
       <<"@", "#", "$", "%", "&", "*", "+", "=", "<", ">">>,
       <<"^", "~", "`", "'", "dquote", ":", ";", "bslash", "|", "nl">>,
       <<"a", "b", "c", "d", "e", "f", "g", "h", "i", "j">>,
       <<"k", "l", "m", "n", "o", "p", "q", "r", "s", "t">>,
       <<"u", "v", "w", "x", "y", "z", " ", " ", " ", " ">> >>

output_control_init ==
    [led_state |-> FALSE, buzzer_active |-> FALSE, cursor_x |-> 0,
     cursor_y |-> 0, selected_char |-> "A"]

set_led(s, on) == [s EXCEPT !.led_state = on]

trigger_buzzer(s) == [s EXCEPT !.buzzer_active = TRUE]

move_cursor(s, dx, dy) ==
    LET x0 == s.cursor_x + dx
        y0 == s.cursor_y + dy
        x1 == IF x0 < 0 THEN CURSOR_MAX_X - 1 ELSE x0
        x2 == IF x1 >= CURSOR_MAX_X THEN 0 ELSE x1
        y1 == IF y0 < 0 THEN CURSOR_MAX_Y - 1 ELSE y0
        y2 == IF y1 >= CURSOR_MAX_Y THEN 0 ELSE y1
    IN  [s EXCEPT !.cursor_x = x2, !.cursor_y = y2]

select_character(s) ==
    [s EXCEPT !.selected_char = keyboard_grid[s.cursor_y + 1][s.cursor_x + 1]]

execute_command(cmd, s) ==
    CASE cmd = CMD_FOCUS -> set_led(s, TRUE)
      [] cmd = CMD_RELAX -> set_led(s, FALSE)
      [] cmd = CMD_BLINK ->
            select_character(move_cursor(trigger_buzzer(s), 1, 0))
      [] OTHER -> s

\* display_output_state: what is printed.
display_output_state(s) ==
    [led |-> s.led_state, buzzer |-> s.buzzer_active,
     cursor_x |-> s.cursor_x, cursor_y |-> s.cursor_y,
     selected_char |-> s.selected_char]

(***************************************************************************)
(* lda.c                                                                   *)
(*                                                                         *)
(* The projection vector is a sequence of reals, or NULL (projection_null) *)
(* when calloc failed or lda_free released it.  sqrtf is exact on the      *)
(* square of a rational and otherwise truncated to three decimals.         *)
(***************************************************************************)
RECURSIVE ISqrtIn(_, _, _)
ISqrtIn(x, lo, hi) ==
    IF lo >= hi THEN lo
    ELSE LET mid == (lo + hi + 1) \div 2
         IN  IF mid * mid <= x THEN ISqrtIn(x, mid, hi)
             ELSE ISqrtIn(x, lo, mid - 1)

ISqrt(x) == ISqrtIn(x, 0, IF x < 46340 THEN x ELSE 46340)

sqrtf(r) ==
    LET sn == ISqrt(r[1])
        sd == ISqrt(r[2])
    IN  IF sn * sn = r[1] /\ sd * sd = r[2] THEN Rat(sn, sd)
        ELSE Rat(ISqrt((r[1] * 1000000) \div r[2]), 1000)

\* Feature vectors of the samples and of the predictions, per feature count.
LdaFeatureCounts == {1, 2}
LdaVectors(n) ==
    IF n = 1 THEN { <<0>>, <<2>>, <<-1>> }
    ELSE { <<0, 0>>, <<3, 4>>, <<6, 8>> }

lda_sample_t(n) == [features : LdaVectors(n), label : {0, 1}]

lda_init(num_features, alloc_ok, log) ==
    [model |-> [num_features |-> num_features,
                threshold |-> RInt(0),
                is_trained |-> FALSE,
                projection_null |-> ~alloc_ok,
                projection |-> IF alloc_ok
                               THEN [i \in 1..num_features |-> RInt(0)]
                               ELSE <<>>],
     log |-> IF alloc_ok THEN log ELSE log_error(log, "AllocError")]

\* The sum of feature j over the samples of the target class, from sample i.
RECURSIVE SumFeature(_, _, _, _)
SumFeature(samples, target_label, j, i) ==
    IF i > Len(samples) THEN RInt(0)
    ELSE RAdd(IF samples[i].label = target_label
              THEN RInt(samples[i].features[j]) ELSE RInt(0),
              SumFeature(samples, target_label, j, i + 1))

CountLabel(samples, target_label) ==
    Cardinality({i \in 1..Len(samples) : samples[i].label = target_label})

compute_mean(samples, num_samples, target_label, num_features) ==
    LET count == CountLabel(samples, target_label)
    IN  [j \in 1..num_features |->
            IF count > 0
            THEN RDiv(SumFeature(samples, target_label, j, 1), RInt(count))
            ELSE RInt(0)]

RECURSIVE Dot(_, _, _)
Dot(a, b, i) ==
    IF i > Len(a) THEN RInt(0)
    ELSE RAdd(RMul(a[i], b[i]), Dot(a, b, i + 1))

\* The body of lda_train after its guards.
TrainModel(m, samples, num_samples) ==
    LET n == m.num_features
        mean0 == compute_mean(samples, num_samples, 0, n)
        mean1 == compute_mean(samples, num_samples, 1, n)
        diff == [i \in 1..n |-> RSub(mean1[i], mean0[i])]
        norm == sqrtf(Dot(diff, diff, 1))
        projection == IF RGt(norm, Rat(1, 10000))
                      THEN [i \in 1..n |-> RDiv(diff[i], norm)]
                      ELSE diff
        projected_mean0 == Dot(projection, mean0, 1)
        projected_mean1 == Dot(projection, mean1, 1)
    IN  [m EXCEPT !.projection = projection,
                  !.threshold = RDiv(RAdd(projected_mean0, projected_mean1),
                                     RInt(2)),
                  !.is_trained = TRUE]

\* The outcomes of a store through a null pointer.
NullStoreOutcomes == {"fault", "stored"}

\* Faulty variant: an empty sample set is not rejected.
lda_train_no_empty_check(m, model_null, samples, samples_null, num_samples, alloc_ok, ub) ==
    IF model_null \/ samples_null
    THEN [model |-> m, ret |-> FALSE, crashed |-> FALSE, null_write |-> FALSE]
    ELSE IF ~alloc_ok
    THEN [model |-> m, ret |-> FALSE, crashed |-> FALSE, null_write |-> FALSE]
    ELSE IF m.projection_null /\ m.num_features > 0
    THEN [model |-> IF ub = "fault" THEN m
                    ELSE TrainModel(m, samples, num_samples),
          ret |-> ub # "fault", crashed |-> ub = "fault",
          null_write |-> TRUE]
    ELSE [model |-> TrainModel(m, samples, num_samples), ret |-> TRUE,
          crashed |-> FALSE, null_write |-> FALSE]

\* lda_train.  alloc_ok: both malloc calls for the means succeed.  The
\* function has no check of model->projection: with num_features > 0 its
\* first loop stores through the pointer whatever it is.  A store through
\* NULL is undefined; ub chooses between the fault that ends the process
\* (crashed) and the store landing at address zero, after which the function
\* runs to its end with the pointer still NULL.
lda_train(m, model_null, samples, samples_null, num_samples, alloc_ok, ub) ==
    IF model_null \/ samples_null \/ num_samples = 0
    THEN [model |-> m, ret |-> FALSE, crashed |-> FALSE, null_write |-> FALSE]
    ELSE IF ~alloc_ok
    THEN [model |-> m, ret |-> FALSE, crashed |-> FALSE, null_write |-> FALSE]
    ELSE IF m.projection_null /\ m.num_features > 0
    THEN [model |-> IF ub = "fault" THEN m
                    ELSE TrainModel(m, samples, num_samples),
          ret |-> ub # "fault", crashed |-> ub = "fault",
          null_write |-> TRUE]
    ELSE [model |-> TrainModel(m, samples, num_samples), ret |-> TRUE,
          crashed |-> FALSE, null_write |-> FALSE]

\* lda_project: the value, and whether the projection vector was read.
lda_project(m, features) ==
    IF ~m.is_trained
    THEN [value |-> RInt(0), reads_projection |-> FALSE]
    ELSE [value |-> Dot(m.projection, [i \in 1..Len(features) |->
                                          RInt(features[i])], 1),
          reads_projection |-> m.num_features > 0]

\* Faulty variant: the comparison with the threshold is strict.
lda_predict_strict(m, features) ==
    LET p == lda_project(m, features)
    IN  [ret |-> IF RGt(p.value, m.threshold) THEN 1 ELSE 0,
         reads_projection |-> p.reads_projection]

lda_predict(m, features) ==
    LET p == lda_project(m, features)
    IN  [ret |-> IF RGe(p.value, m.threshold) THEN 1 ELSE 0,
         reads_projection |-> p.reads_projection]

lda_free(m, model_null) ==
    IF ~model_null /\ ~m.projection_null
    THEN [m EXCEPT !.projection = <<>>, !.projection_null = TRUE,
                   !.is_trained = FALSE]
    ELSE m

(***************************************************************************)
(* The state before any operation.                                         *)
(***************************************************************************)
IdleClassifier ==
    /\ state = classifier_init
    /\ trace = <<>>

NoWindow == [signal |-> <<>>, band |-> [alpha |-> RInt(0), beta |-> RInt(0)]]

IdleFeatures ==
    /\ window = NoWindow
    /\ extraction = <<>>

IdleFFT ==
    /\ fft_result = FreshBuffer
    /\ ifft_result = FreshBuffer
    /\ error_log = <<>>
    /\ fft_trace = <<>>

NoModel == lda_init(0, FALSE, <<>>).model

IdleLDA ==
    /\ model = NoModel
    /\ training_set = <<>>
    /\ lda_last = <<>>

NoBandInput == [signal |-> <<>>, build |-> [defined |-> TRUE, value |-> 1]]

IdleBand ==
    /\ band_input = NoBandInput
    /\ band_last = <<>>

Unset == [visual_impairment |-> "UNSET", motor_impairment |-> "UNSET",
          attention_deficit |-> "UNSET"]

IdleHealth ==
    /\ predictions = Unset
    /\ health_last = <<>>

IdleBitReverse ==
    /\ bitrev_input = [n |-> 0, bits |-> 0]
    /\ bitrev_last = <<>>

IdleDemo ==
    /\ output_state = output_control_init
    /\ demo_loop = [name |-> "run_demo_scenario", iter |-> 0]
    /\ demo_last = <<>>

IdlePipeline ==
    /\ unassigned = RInt(0)
    /\ pipe_last = <<>>

IdleLoader ==
    /\ g_data_config = [data_directory |-> <<>>, default_dataset |-> <<>>,
                        auto_detect_format |-> FALSE]
    /\ g_initialized = FALSE
    /\ loader_trace = <<>>

IdlePreprocess ==
    /\ prep_length = 0
    /\ prep_last = <<>>

(***************************************************************************)
(* The classifier session: classifier_init, then classify_command calls.   *)
(* trace records, per call, the vector presented, the candidate, the       *)
(* returned command and the baseline and counter around the call.          *)
(***************************************************************************)
Init ==
    /\ IdleClassifier
    /\ IdleFeatures
    /\ IdleFFT
    /\ IdleLDA
    /\ IdleBand
    /\ IdleHealth
    /\ IdlePreprocess
    /\ IdleLoader
    /\ IdlePipeline
    /\ IdleDemo
    /\ IdleBitReverse

ClassifyCall ==
    /\ Len(trace) < MaxCalls
    /\ \E features \in ClassifierInputs :
          LET r == classify_command(features, state)
          IN  /\ state' = r.state
              /\ trace' = Append(trace,
                    [features |-> features,
                     detected |-> DetectCommand(features, state),
                     ret |-> r.ret,
                     before |-> state.baseline_amplitude,
                     after |-> r.state.baseline_amplitude,
                     counter |-> r.state.debounce_counter])
    /\ UNCHANGED <<feature_vars, fft_vars, lda_vars, band_vars, health_vars,
                   bitrev_vars, demo_vars, pipe_vars, loader_vars,
                   prep_vars>>

Next == ClassifyCall

Spec == Init /\ [][Next]_vars

(***************************************************************************)
(* Feature extraction: extract_features called on a signal window.         *)
(***************************************************************************)
Signals == UNION { [1..len -> SampleValues] : len \in 0..MaxSignalLen }

\* A window: the signal and the two band powers calculate_band_power finds
\* in it.
Windows ==
    [signal : Signals, band : [alpha : BandPowers, beta : BandPowers]]

InitFeatures ==
    /\ window \in Windows
    /\ extraction = <<>>
    /\ IdleClassifier
    /\ IdleFFT
    /\ IdleLDA
    /\ IdleBand
    /\ IdleHealth
    /\ IdlePreprocess
    /\ IdleLoader
    /\ IdlePipeline
    /\ IdleDemo
    /\ IdleBitReverse

ExtractCall ==
    /\ extraction' =
          << [signal |-> window.signal,
              band |-> window.band,
              features |-> extract_features(window.signal,
                                            Len(window.signal),
                                            window.band)] >>
    /\ UNCHANGED <<window, classifier_vars, fft_vars, lda_vars, band_vars,
                   health_vars, bitrev_vars, demo_vars, pipe_vars,
                   loader_vars, prep_vars>>

NextFeatures == ExtractCall

SpecFeatures == InitFeatures /\ [][NextFeatures]_vars

(***************************************************************************)
(* FFT calls: fft_compute into fft_result, and fft_inverse from fft_result *)
(* into ifft_result, with any size n up to MaxFFTSize.                     *)
(***************************************************************************)
FFTInputs(n) == [1..n -> FFTSampleValues]

\* The samples as signal_t values.
Reals(input) == [i \in 1..Len(input) |-> RInt(input[i])]

FFTComputeCall ==
    /\ Len(fft_trace) < MaxFFTCalls
    /\ \E n \in 0..MaxFFTSize : \E input \in FFTInputs(n) :
          LET r == fft_compute(Reals(input), fft_result, error_log, n)
          IN  /\ fft_result' = r.output
              /\ error_log' = r.log
              /\ fft_trace' = Append(fft_trace,
                    [op |-> "fft_compute", n |-> n, input |-> input,
                     before |-> fft_result, after |-> r.output,
                     log_before |-> error_log, log_after |-> r.log])
    /\ UNCHANGED <<ifft_result, classifier_vars, feature_vars, lda_vars,
                   band_vars, health_vars, bitrev_vars, demo_vars,
                   pipe_vars, loader_vars, prep_vars>>

\* The caller passes fft_result as the input; a valid size reads its first
\* n cells, which must have been written.
FFTInverseCall ==
    /\ Len(fft_trace) < MaxFFTCalls
    /\ \E n \in 0..MaxFFTSize :
          /\ is_power_of_2(n) => \A i \in 1..n : fft_result[i].init
          /\ LET r == fft_inverse(fft_result, ifft_result, error_log, n)
             IN  /\ ifft_result' = r.output
                 /\ error_log' = r.log
                 /\ fft_trace' = Append(fft_trace,
                       [op |-> "fft_inverse", n |-> n, input |-> <<>>,
                        before |-> ifft_result, after |-> r.output,
                        log_before |-> error_log, log_after |-> r.log])
    /\ UNCHANGED <<fft_result, classifier_vars, feature_vars, lda_vars,
                   band_vars, health_vars, bitrev_vars, demo_vars,
                   pipe_vars, loader_vars, prep_vars>>

NextFFT == FFTComputeCall \/ FFTInverseCall

SpecFFT == Init /\ [][NextFFT]_vars

(***************************************************************************)
(* The LDA session: lda_init, then lda_train, lda_predict and lda_free     *)
(* calls on the model.  lda_last holds the last call.                      *)
(***************************************************************************)
LdaCall(op, before, model_null, samples, samples_null, num_samples, features, ret, reads_projection, crashed, null_write) ==
    << [op |-> op,
        prev_op |-> IF lda_last = <<>> THEN "lda_init" ELSE lda_last[1].op,
        before |-> before,
        model_null |-> model_null,
        samples |-> samples,
        samples_null |-> samples_null,
        num_samples |-> num_samples,
        features |-> features,
        ret |-> ret,
        reads_projection |-> reads_projection,
        crashed |-> crashed,
        null_write |-> null_write] >>

\* No call follows one whose behaviour was undefined.
LdaRunning ==
    IF lda_last = <<>> THEN TRUE
    ELSE ~lda_last[1].crashed /\ ~lda_last[1].null_write

SampleSets(n) ==
    UNION { [1..len -> lda_sample_t(n)] : len \in 0..MaxSamples }

InitLDA ==
    /\ \E n \in LdaFeatureCounts, alloc_ok \in BOOLEAN :
          LET r == lda_init(n, alloc_ok, <<>>)
          IN  /\ model = r.model
              /\ error_log = r.log
              /\ training_set \in SampleSets(n)
    /\ lda_last = <<>>
    /\ fft_result = FreshBuffer
    /\ ifft_result = FreshBuffer
    /\ fft_trace = <<>>
    /\ IdleClassifier
    /\ IdleFeatures
    /\ IdleBand
    /\ IdleHealth
    /\ IdlePreprocess
    /\ IdleLoader
    /\ IdlePipeline
    /\ IdleDemo
    /\ IdleBitReverse

\* lda_train on the session's model with the sample array, or with a count
\* of zero samples.
LdaTrainCall ==
    /\ LdaRunning
    /\ \E num_samples \in {0, Len(training_set)}, alloc_ok \in BOOLEAN,
          ub \in NullStoreOutcomes :
          LET samples == SubSeq(training_set, 1, num_samples)
              r == lda_train(model, FALSE, samples, FALSE, num_samples,
                             alloc_ok, ub)
          IN  /\ model' = r.model
              /\ lda_last' = LdaCall("lda_train", model, FALSE, samples,
                                     FALSE, num_samples, <<>>,
                                     IF r.ret THEN 1 ELSE 0, FALSE,
                                     r.crashed, r.null_write)
    /\ UNCHANGED <<training_set, classifier_vars, feature_vars, fft_vars,
                   band_vars, health_vars, bitrev_vars, demo_vars,
                   pipe_vars, loader_vars, prep_vars>>

\* lda_train given a null model pointer or a null sample array.
LdaTrainNullCall ==
    /\ LdaRunning
    /\ \E model_null \in BOOLEAN, samples_null \in BOOLEAN,
          num_samples \in 0..1 :
          /\ model_null \/ samples_null
          /\ LET samples == IF samples_null \/ num_samples = 0 THEN <<>>
                            ELSE << [features |->
                                        CHOOSE v \in
                                          LdaVectors(model.num_features) :
                                          TRUE,
                                     label |-> 1] >>
                 r == lda_train(model, model_null, samples, samples_null,
                                num_samples, TRUE, "fault")
             IN  /\ model' = r.model
                 /\ lda_last' = LdaCall("lda_train", model, model_null,
                                        samples, samples_null, num_samples,
                                        <<>>, IF r.ret THEN 1 ELSE 0, FALSE,
                                        r.crashed, r.null_write)
    /\ UNCHANGED <<training_set, classifier_vars, feature_vars, fft_vars,
                   band_vars, health_vars, bitrev_vars, demo_vars,
                   pipe_vars, loader_vars, prep_vars>>

LdaPredictCall ==
    /\ LdaRunning
    /\ \E features \in LdaVectors(model.num_features) :
          LET r == lda_predict(model, features)
          IN  /\ lda_last' = LdaCall("lda_predict", model, FALSE, <<>>,
                                     FALSE, 0, features, r.ret,
                                     r.reads_projection, FALSE, FALSE)
    /\ UNCHANGED <<model, training_set, classifier_vars, feature_vars,
                   fft_vars, band_vars, health_vars, bitrev_vars, demo_vars,
                   pipe_vars, loader_vars, prep_vars>>

LdaFreeCall ==
    /\ LdaRunning
    /\ model' = lda_free(model, FALSE)
    /\ lda_last' = LdaCall("lda_free", model, FALSE, <<>>, FALSE, 0, <<>>,
                           0, FALSE, FALSE, FALSE)
    /\ UNCHANGED <<training_set, classifier_vars, feature_vars, fft_vars,
                   band_vars, health_vars, bitrev_vars, demo_vars,
                   pipe_vars, loader_vars, prep_vars>>

NextLDA ==
    LdaTrainCall \/ LdaTrainNullCall \/ LdaPredictCall \/ LdaFreeCall

SpecLDA == InitLDA /\ [][NextLDA]_vars

(***************************************************************************)
(* A band-power session: one window and one build; the call draws the     *)
(* band, the allocation outcomes and the outcome of an invalid read.       *)
(***************************************************************************)
BandLengths == {0} \cup 2..MaxWindowLen

BandSignals == UNION { [1..len -> FFTSampleValues] : len \in BandLengths }

Bands ==
    { [low_freq |-> ALPHA_LOW_FREQ, high_freq |-> ALPHA_HIGH_FREQ],
      [low_freq |-> BETA_LOW_FREQ, high_freq |-> BETA_HIGH_FREQ] }

\* SAMPLING_RATE, and a rate that puts bins of a 4-point transform at 13 Hz
\* and 26 Hz.
SamplingRates == {SAMPLING_RATE, 52}

InitBand ==
    /\ band_input \in [signal : BandSignals, build : Builds]
    /\ band_last = <<>>
    /\ IdleClassifier
    /\ IdleFeatures
    /\ IdleFFT
    /\ IdleLDA
    /\ IdleHealth
    /\ IdlePreprocess
    /\ IdleLoader
    /\ IdlePipeline
    /\ IdleDemo
    /\ IdleBitReverse

BandPowerFFTCall ==
    /\ band_last = <<>>
    /\ \E sampling_rate \in SamplingRates, band \in Bands,
          alloc \in Allocations, ub \in UBOutcomes :
          LET r == calculate_band_power_fft(
                       band_input.signal, Len(band_input.signal),
                       sampling_rate, band.low_freq, band.high_freq, alloc,
                       ub, error_log)
          IN  /\ band_last' = << [op |-> "calculate_band_power_fft",
                                  band |-> band, path |-> "fft",
                                  ret |-> r.ret, call |-> r] >>
              /\ error_log' = r.log
    /\ UNCHANGED <<band_input, fft_result, ifft_result, fft_trace,
                   classifier_vars, feature_vars, lda_vars, health_vars,
                   bitrev_vars, demo_vars, pipe_vars, loader_vars,
                   prep_vars>>

BandPowerCall ==
    /\ band_last = <<>>
    /\ \E band \in Bands, alloc \in Allocations, ub \in UBOutcomes :
          LET r == calculate_band_power(
                       band_input.signal, Len(band_input.signal),
                       band.low_freq, band.high_freq, band_input.build,
                       alloc, ub, error_log)
          IN  /\ band_last' = << [op |-> "calculate_band_power",
                                  band |-> band, path |-> r.path,
                                  ret |-> r.ret, call |-> r.call] >>
              /\ error_log' = r.call.log
    /\ UNCHANGED <<band_input, fft_result, ifft_result, fft_trace,
                   classifier_vars, feature_vars, lda_vars, health_vars,
                   bitrev_vars, demo_vars, pipe_vars, loader_vars,
                   prep_vars>>

\* calculate_band_power_psd handed a null spectrum pointer.
BandPowerPsdNullCall ==
    /\ band_last = <<>>
    /\ \E band \in Bands, ub \in UBOutcomes :
          LET r == calculate_band_power_psd(NoSpectrum, TRUE, band.low_freq,
                                            band.high_freq, ub)
          IN  band_last' = << [op |-> "calculate_band_power_psd",
                               band |-> band, path |-> "psd",
                               ret |-> r.value,
                               call |-> [NoFFTPath EXCEPT
                                            !.ret = r.value,
                                            !.crashed = r.crashed,
                                            !.null_read = r.null_read,
                                            !.log = error_log]] >>
    /\ UNCHANGED <<band_input, classifier_vars, feature_vars, fft_vars,
                   lda_vars, health_vars, bitrev_vars, demo_vars, pipe_vars,
                   loader_vars, prep_vars>>

NextBand == BandPowerFFTCall \/ BandPowerCall \/ BandPowerPsdNullCall

SpecBand == InitBand /\ [][NextBand]_vars

(***************************************************************************)
(* Health screening: predict_impairments calls on the caller's             *)
(* predictions_t, each with its own feature vector.                        *)
(***************************************************************************)
HealthInputs ==
    [theta_power : {RInt(0), Rat(3, 100), Rat(1, 25), Rat(1, 20), Rat(1, 2)},
     alpha_power : {Rat(1, 5), Rat(1, 4), Rat(7, 20), Rat(1, 2)},
     beta_power : {RInt(0), Rat(1, 100), Rat(1, 50), Rat(1, 5), Rat(3, 10)}]

PredictCall ==
    /\ \E features \in HealthInputs :
          LET r == predict_impairments(features)
          IN  /\ predictions' = r.predictions
              /\ health_last' = << [features |-> features,
                                    before |-> predictions,
                                    divisors |-> r.divisors] >>
    /\ UNCHANGED <<classifier_vars, feature_vars, fft_vars, lda_vars,
                   band_vars, bitrev_vars, demo_vars, pipe_vars,
                   loader_vars, prep_vars>>

NextHealth == PredictCall

SpecHealth == Init /\ [][NextHealth]_vars


(***************************************************************************)
(* bit_reverse on one index of one bit width, with the index ranges of the *)
(* permutation loop and of the butterfly loops of a transform of that      *)
(* width.                                                                  *)
(***************************************************************************)
\* The indices output[k + j + m2] of the butterfly loops of fft_compute and
\* fft_inverse for a transform of size n = 2^bits.
ButterflyIndices(n, bits) ==
    UNION { UNION { { k + j + Shl(1, stage) \div 2 :
                        j \in 0..(Shl(1, stage) \div 2 - 1) } :
                    k \in {x \in 0..(n - 1) : x % Shl(1, stage) = 0} } :
            stage \in 1..bits }

\* The output indices written by the permutation loop, one per i.
PermutationWrites(n, bits) == [i \in 0..(n - 1) |-> bit_reverse(i, bits)]

BitReverseInputs ==
    UNION { [n : 0..(Shl(1, bits) - 1), bits : {bits}] : bits \in 0..MaxBits }

InitBitReverse ==
    /\ bitrev_input \in BitReverseInputs
    /\ bitrev_last = <<>>
    /\ IdleClassifier
    /\ IdleFeatures
    /\ IdleFFT
    /\ IdleLDA
    /\ IdleBand
    /\ IdleHealth
    /\ IdlePreprocess
    /\ IdleLoader
    /\ IdlePipeline
    /\ IdleDemo

BitReverseCall ==
    /\ bitrev_last = <<>>
    /\ LET bits == bitrev_input.bits
           reversed == bit_reverse(bitrev_input.n, bits)
       IN  bitrev_last' =
              << [reversed |-> reversed,
                  twice |-> bit_reverse(reversed, bits),
                  writes |-> PermutationWrites(Shl(1, bits), bits),
                  butterflies |-> ButterflyIndices(Shl(1, bits), bits)] >>
    /\ UNCHANGED <<bitrev_input, classifier_vars, feature_vars, fft_vars,
                   lda_vars, band_vars, health_vars, demo_vars, pipe_vars,
                   loader_vars, prep_vars>>

NextBitReverse == BitReverseCall

SpecBitReverse == InitBitReverse /\ [][NextBitReverse]_vars


(***************************************************************************)
(* The demo loops of main.c: each iteration classifies a window, executes  *)
(* the detected command and displays the output state.  The command        *)
(* classify_command returns is drawn from command_t.                       *)
(***************************************************************************)
Commands == {CMD_NONE, CMD_FOCUS, CMD_RELAX, CMD_BLINK}

DemoLoops == {"run_demo_scenario", "run_interactive_demo"}

InitDemo ==
    /\ output_state = output_control_init
    /\ demo_loop \in [name : DemoLoops, iter : {0}]
    /\ demo_last = <<>>
    /\ IdleClassifier
    /\ IdleFeatures
    /\ IdleFFT
    /\ IdleLDA
    /\ IdleBand
    /\ IdleHealth
    /\ IdlePreprocess
    /\ IdleLoader
    /\ IdlePipeline
    /\ IdleBitReverse

\* Steps 5 and 6 of one iteration: execute_command and the buzzer reset
\* under detected != CMD_NONE, then display_output_state.
DemoStep(detected, s) ==
    LET executed == IF detected # CMD_NONE
                    THEN execute_command(detected, s)
                    ELSE s
        after == IF detected # CMD_NONE /\ executed.buzzer_active
                 THEN [executed EXCEPT !.buzzer_active = FALSE]
                 ELSE executed
    IN  [state |-> after,
         last |-> << [detected |-> detected,
                      executed |-> executed,
                      shown |-> display_output_state(after)] >>]

DemoScenarioIteration ==
    /\ demo_loop.name = "run_demo_scenario"
    /\ demo_loop.iter < MaxIterations
    /\ \E detected \in Commands :
          /\ output_state' = DemoStep(detected, output_state).state
          /\ demo_last' = DemoStep(detected, output_state).last
    /\ demo_loop' = [demo_loop EXCEPT !.iter = @ + 1]
    /\ UNCHANGED <<classifier_vars, feature_vars, fft_vars, lda_vars,
                   band_vars, health_vars, bitrev_vars, pipe_vars,
                   loader_vars, prep_vars>>

InteractiveDemoIteration ==
    /\ demo_loop.name = "run_interactive_demo"
    /\ demo_loop.iter < MaxIterations
    /\ \E detected \in Commands :
          /\ output_state' = DemoStep(detected, output_state).state
          /\ demo_last' = DemoStep(detected, output_state).last
    /\ demo_loop' = [demo_loop EXCEPT !.iter = @ + 1]
    /\ UNCHANGED <<classifier_vars, feature_vars, fft_vars, lda_vars,
                   band_vars, health_vars, bitrev_vars, pipe_vars,
                   loader_vars, prep_vars>>

NextDemo == DemoScenarioIteration \/ InteractiveDemoIteration

SpecDemo == InitDemo /\ [][NextDemo]_vars


(***************************************************************************)
(* The pipeline on one window: extract_features into the caller's          *)
(* features_t, then classify_command calls and predict_impairments on it.  *)
(* The caller's features_t is an uninitialised local (main.c:46, 127): a   *)
(* field extract_features does not assign holds whatever was there.        *)
(***************************************************************************)
IndeterminateValues == {RInt(0), Rat(1, 2)}

\* The caller's features_t after extract_features has written to it.
ExtractedFeatures ==
    [theta_power |-> unassigned,
     alpha_power |-> extraction[1].features.alpha_power,
     beta_power |-> extraction[1].features.beta_power,
     gamma_power |-> unassigned,
     peak_amplitude |-> extraction[1].features.peak_amplitude,
     variance |-> extraction[1].features.variance]

InitPipeline ==
    /\ window \in Windows
    /\ extraction = <<>>
    /\ unassigned \in IndeterminateValues
    /\ pipe_last = <<>>
    /\ IdleClassifier
    /\ IdleFFT
    /\ IdleLDA
    /\ IdleBand
    /\ IdleHealth
    /\ IdlePreprocess
    /\ IdleLoader
    /\ IdleDemo
    /\ IdleBitReverse

ClassifyExtractedCall ==
    /\ extraction # <<>>
    /\ Len(trace) < MaxCalls
    /\ LET features == ExtractedFeatures
           r == classify_command(features, state)
       IN  /\ state' = r.state
           /\ trace' = Append(trace,
                 [features |-> features,
                  detected |-> DetectCommand(features, state),
                  ret |-> r.ret,
                  before |-> state.baseline_amplitude,
                  after |-> r.state.baseline_amplitude,
                  counter |-> r.state.debounce_counter])
    /\ UNCHANGED <<feature_vars, fft_vars, lda_vars, band_vars, health_vars,
                   bitrev_vars, demo_vars, pipe_vars, loader_vars,
                   prep_vars>>

PredictExtractedCall ==
    /\ extraction # <<>>
    /\ pipe_last = <<>>
    /\ pipe_last' =
          << [reads |-> predict_impairments_reads(ExtractedFeatures),
              assigned |-> DOMAIN extraction[1].features,
              predictions |->
                  predict_impairments(ExtractedFeatures).predictions] >>
    /\ UNCHANGED <<unassigned, classifier_vars, feature_vars, fft_vars,
                   lda_vars, band_vars, health_vars, bitrev_vars, demo_vars,
                   loader_vars, prep_vars>>

\* extract_features is called once per window.
ExtractWindowCall ==
    /\ extraction = <<>>
    /\ ExtractCall

NextPipeline ==
    ExtractWindowCall \/ ClassifyExtractedCall \/ PredictExtractedCall

SpecPipeline == InitPipeline /\ [][NextPipeline]_vars



(***************************************************************************)
(* data_loader.c: the data directory and the dataset path.  A C string is  *)
(* the sequence of its characters before the terminating NUL.              *)
(***************************************************************************)
MAX_PATH_LENGTH == 512

DefaultDirectory == <<"d", "a", "t", "a", "/", "r", "a", "w">>

DefaultDataset ==
    <<"s", "a", "m", "p", "l", "e", "_", "e", "e", "g", "_", "d", "a", "t",
      "a", ".", "c", "s", "v">>

\* strlen
strlen(s) == Len(s)

\* strchr(s, c) != NULL
strchr(s, c) == \E i \in 1..Len(s) : s[i] = c

\* snprintf(output, size, "%s/%s", directory, name): at most size - 1
\* characters of the formatted text are stored.
snprintf_path(size, directory, name) ==
    LET text == directory \o <<"/">> \o name
    IN  IF Len(text) < size THEN text ELSE SubSeq(text, 1, size - 1)

data_loader_init(config, config_null) ==
    IF ~config_null
    THEN config
    ELSE [data_directory |-> DefaultDirectory,
          default_dataset |-> DefaultDataset,
          auto_detect_format |-> TRUE]

set_data_directory(config, path, path_null) ==
    IF ~path_null /\ strlen(path) < MAX_PATH_LENGTH
    THEN [config EXCEPT !.data_directory = path]
    ELSE config

\* get_dataset_path: the value returned, what output_path holds if it was
\* written, and the configuration and the initialised flag it leaves.
get_dataset_path(config, initialized, dataset_name, name_null, output_null) ==
    LET cfg == IF ~initialized THEN data_loader_init(config, TRUE)
               ELSE config
    IN  IF name_null \/ output_null
        THEN [ret |-> FALSE, written |-> FALSE, output |-> <<>>,
              config |-> cfg, initialized |-> TRUE]
        ELSE IF strchr(dataset_name, "/") \/ strchr(dataset_name, "\\")
        THEN [ret |-> TRUE, written |-> TRUE, output |-> dataset_name,
              config |-> cfg, initialized |-> TRUE]
        ELSE [ret |-> TRUE, written |-> TRUE,
              output |-> snprintf_path(MAX_PATH_LENGTH, cfg.data_directory,
                                       dataset_name),
              config |-> cfg, initialized |-> TRUE]

(***************************************************************************)
(* The data loader session: calls of data_loader_init, data_loader_cleanup,*)
(* set_data_directory and get_dataset_path in any order.                   *)
(***************************************************************************)
\* A string of n characters.
StringOfLength(n) == [i \in 1..n |-> "x"]

\* The configuration demo_integration.c passes to data_loader_init.
DemoConfig ==
    [data_directory |-> <<"d", "a", "t", "a">>,
     default_dataset |-> DefaultDataset,
     auto_detect_format |-> TRUE]

DirectoryPaths ==
    { <<"p">>, <<"m", "y", "/", "d">>, StringOfLength(MAX_PATH_LENGTH - 1),
      StringOfLength(MAX_PATH_LENGTH) }

DatasetNames == { <<"f">>, <<"t", ".", "c", "s", "v">>, <<"a", "/", "b">>, <<"a", "\\", "b">> }

LoaderCall(op, path, path_null, name, name_null, output_null, ret, written, output) ==
    [op |-> op,
     directory_before |-> g_data_config.data_directory,
     initialized_before |-> g_initialized,
     path |-> path,
     path_null |-> path_null,
     name |-> name,
     name_null |-> name_null,
     output_null |-> output_null,
     ret |-> ret,
     written |-> written,
     output |-> output]

InitLoader ==
    /\ g_data_config = [data_directory |-> <<>>, default_dataset |-> <<>>,
                        auto_detect_format |-> FALSE]
    /\ g_initialized = FALSE
    /\ loader_trace = <<>>
    /\ IdleClassifier
    /\ IdleFeatures
    /\ IdleFFT
    /\ IdleLDA
    /\ IdleBand
    /\ IdleHealth
    /\ IdlePreprocess
    /\ IdlePipeline
    /\ IdleDemo
    /\ IdleBitReverse

DataLoaderInitCall ==
    /\ Len(loader_trace) < MaxLoaderCalls
    /\ \E config_null \in BOOLEAN :
          /\ g_data_config' = data_loader_init(DemoConfig, config_null)
          /\ g_initialized' = TRUE
          /\ loader_trace' = Append(loader_trace,
                LoaderCall("data_loader_init", <<>>, config_null, <<>>,
                           FALSE, FALSE, TRUE, FALSE, <<>>))
    /\ UNCHANGED <<classifier_vars, feature_vars, fft_vars, lda_vars,
                   band_vars, health_vars, bitrev_vars, demo_vars,
                   pipe_vars, prep_vars>>

DataLoaderCleanupCall ==
    /\ Len(loader_trace) < MaxLoaderCalls
    /\ g_initialized' = FALSE
    /\ loader_trace' = Append(loader_trace,
          LoaderCall("data_loader_cleanup", <<>>, FALSE, <<>>, FALSE, FALSE,
                     TRUE, FALSE, <<>>))
    /\ UNCHANGED <<g_data_config, classifier_vars, feature_vars, fft_vars,
                   lda_vars, band_vars, health_vars, bitrev_vars, demo_vars,
                   pipe_vars, prep_vars>>

SetDataDirectoryCall ==
    /\ Len(loader_trace) < MaxLoaderCalls
    /\ \E path \in DirectoryPaths, path_null \in BOOLEAN :
          /\ path_null => path = <<"p">>
          /\ g_data_config' = set_data_directory(g_data_config, path,
                                                 path_null)
          /\ loader_trace' = Append(loader_trace,
                LoaderCall("set_data_directory", path, path_null, <<>>,
                           FALSE, FALSE, TRUE, FALSE, <<>>))
    /\ UNCHANGED <<g_initialized, classifier_vars, feature_vars, fft_vars,
                   lda_vars, band_vars, health_vars, bitrev_vars, demo_vars,
                   pipe_vars, prep_vars>>

GetDatasetPathCall ==
    /\ Len(loader_trace) < MaxLoaderCalls
    /\ \E name \in DatasetNames, name_null \in BOOLEAN,
          output_null \in BOOLEAN :
          /\ (name_null \/ output_null) => name = <<"f">>
          /\ LET r == get_dataset_path(g_data_config, g_initialized, name,
                                       name_null, output_null)
             IN  /\ g_data_config' = r.config
                 /\ g_initialized' = r.initialized
                 /\ loader_trace' = Append(loader_trace,
                       LoaderCall("get_dataset_path", <<>>, FALSE, name,
                                  name_null, output_null, r.ret, r.written,
                                  r.output))
    /\ UNCHANGED <<classifier_vars, feature_vars, fft_vars, lda_vars,
                   band_vars, health_vars, bitrev_vars, demo_vars,
                   pipe_vars, prep_vars>>

NextLoader ==
    \/ DataLoaderInitCall
    \/ DataLoaderCleanupCall
    \/ SetDataDirectoryCall
    \/ GetDatasetPathCall

SpecLoader == InitLoader /\ [][NextLoader]_vars



(***************************************************************************)
(* preprocessing.c: the element indices each function reads and writes in  *)
(* its buffers.  No index depends on a sample value, so the contents of    *)
(* the buffers are left out and each function is the set of its accesses.  *)
(***************************************************************************)
WINDOW_SIZE == 256
MA_FILTER_SIZE == 5

\* moving_average_filter: input[i - j] is read for every i < length and
\* every j < window with i >= j, output[i] is written for every i < length.
moving_average_filter(length, window_size) ==
    LET w == IF window_size > length THEN length ELSE window_size
    IN  [input_read |-> {i - j : <<i, j>> \in
                            {p \in (0..(length - 1)) \X (0..(w - 1)) :
                                p[1] >= p[2]}},
         output_written |-> 0..(length - 1)]

\* memcpy(dst, src, length * sizeof(signal_t)): the elements copied.
memcpy(length) == 0..(length - 1)

\* bandpass_filter, with signal_t temp[WINDOW_SIZE].
bandpass_filter(length) ==
    LET ma == moving_average_filter(length, MA_FILTER_SIZE)
    IN  [temp_written |-> memcpy(length),
         temp_read |-> 0..(length - 1),
         input_read |-> memcpy(length) \cup ma.input_read,
         output_read |-> 0..(length - 1),
         output_written |-> ma.output_written \cup (0..(length - 1))]

\* preprocess_signal, with signal_t filtered[WINDOW_SIZE].  calculate_baseline,
\* remove_baseline and normalize_signal touch signal[0 .. length - 1] only.
preprocess_signal(length) ==
    LET ma == moving_average_filter(length, MA_FILTER_SIZE)
    IN  [filtered_written |-> ma.output_written,
         filtered_read |-> memcpy(length),
         signal_read |-> (0..(length - 1)) \cup ma.input_read,
         signal_written |-> (0..(length - 1)) \cup memcpy(length)]

(***************************************************************************)
(* A preprocessing call: the interface takes any size_t length.            *)
(***************************************************************************)
PreprocessLengths == 0..(WINDOW_SIZE + MaxOverrun)

InitPreprocess ==
    /\ prep_length \in PreprocessLengths
    /\ prep_last = <<>>
    /\ IdleClassifier
    /\ IdleFeatures
    /\ IdleFFT
    /\ IdleLDA
    /\ IdleBand
    /\ IdleHealth
    /\ IdlePipeline
    /\ IdleLoader
    /\ IdleDemo
    /\ IdleBitReverse

PreprocessSignalCall ==
    /\ prep_last = <<>>
    /\ LET r == preprocess_signal(prep_length)
       IN  prep_last' = << [op |-> "preprocess_signal",
                            length |-> prep_length,
                            temporary_written |-> r.filtered_written,
                            temporary_read |-> r.filtered_read,
                            caller_read |-> r.signal_read,
                            caller_written |-> r.signal_written] >>
    /\ UNCHANGED <<prep_length, classifier_vars, feature_vars, fft_vars,
                   lda_vars, band_vars, health_vars, bitrev_vars, demo_vars,
                   pipe_vars, loader_vars>>

BandpassFilterCall ==
    /\ prep_last = <<>>
    /\ LET r == bandpass_filter(prep_length)
       IN  prep_last' = << [op |-> "bandpass_filter",
                            length |-> prep_length,
                            temporary_written |-> r.temp_written,
                            temporary_read |-> r.temp_read,
                            caller_read |-> r.input_read \cup r.output_read,
                            caller_written |-> r.output_written] >>
    /\ UNCHANGED <<prep_length, classifier_vars, feature_vars, fft_vars,
                   lda_vars, band_vars, health_vars, bitrev_vars, demo_vars,
                   pipe_vars, loader_vars>>

NextPreprocess == PreprocessSignalCall \/ BandpassFilterCall

SpecPreprocess == InitPreprocess /\ [][NextPreprocess]_vars

(***************************************************************************)
(* Properties of the classifier session.                                   *)
(***************************************************************************)
Calls == 1..Len(trace)

\* The vector of call k satisfies all three rules in the state it is given.
AllThreeRules(k) ==
    LET f == trace[k].features
        b == trace[k].before
    IN  /\ RGt(f.peak_amplitude, RMul(BLINK_THRESHOLD, b))
        /\ RGt(f.beta_power, FOCUS_THRESHOLD)
        /\ RGt(f.alpha_power, RELAX_THRESHOLD)

\* The baseline an exponential moving average step yields from b and peak a.
EmaStep(a, b) == RAdd(RMul(Rat(1, 10), a), RMul(Rat(9, 10), b))

\* C1 - Debounce law: from classifier_init, while every call so far had the
\* candidate FOCUS, calls 1..DEBOUNCE_COUNT-1 returned NONE and call
\* DEBOUNCE_COUNT returned FOCUS.
C1_DebounceLaw ==
    \A k \in Calls :
        (\A i \in 1..k : trace[i].detected = CMD_FOCUS)
        => /\ (k < DEBOUNCE_COUNT => trace[k].ret = CMD_NONE)
           /\ (k = DEBOUNCE_COUNT => trace[k].ret = CMD_FOCUS)

C1_Witness ==
    /\ Len(trace) >= DEBOUNCE_COUNT
    /\ \A i \in 1..DEBOUNCE_COUNT : trace[i].detected = CMD_FOCUS
    /\ trace[DEBOUNCE_COUNT].ret = CMD_FOCUS
    /\ \A i \in 1..(DEBOUNCE_COUNT - 1) : trace[i].ret = CMD_NONE

\* C2 - Emission safety: a call returns a command c other than NONE only if
\* c is the candidate of this call and of each of the DEBOUNCE_COUNT-1 calls
\* before it; every other call returns NONE.
C2_EmissionSafety ==
    \A k \in Calls :
        trace[k].ret # CMD_NONE
        => /\ trace[k].ret = trace[k].detected
           /\ k >= DEBOUNCE_COUNT
           /\ \A j \in (k - DEBOUNCE_COUNT + 1)..k :
                 trace[j].detected = trace[k].ret

C2_Witness ==
    \E k \in Calls :
        /\ k > DEBOUNCE_COUNT
        /\ trace[k].ret # CMD_NONE
        /\ trace[k - DEBOUNCE_COUNT].detected # trace[k].ret
        /\ trace[k - DEBOUNCE_COUNT].detected # CMD_NONE

\* The calls so far alternate between two vectors fa (odd calls) and fb
\* (even calls) whose candidates differ.
Alternates(fa, fb) ==
    /\ DetectCommand(fa, classifier_init) # DetectCommand(fb, classifier_init)
    /\ \A i \in Calls :
          trace[i].features = (IF i % 2 = 1 THEN fa ELSE fb)

\* C3 - Alternation never emits: while the calls alternate between two
\* vectors with different candidates, the counter stays below
\* DEBOUNCE_COUNT and every call returns NONE.
C3_AlternationNeverEmits ==
    \A fa, fb \in ClassifierInputs :
        Alternates(fa, fb)
        => \A i \in Calls :
              /\ trace[i].ret = CMD_NONE
              /\ trace[i].counter < DEBOUNCE_COUNT

C3_Witness ==
    /\ Len(trace) >= 2 * DEBOUNCE_COUNT
    /\ \E fa, fb \in ClassifierInputs :
          /\ Alternates(fa, fb)
          /\ DetectCommand(fa, classifier_init) = CMD_FOCUS
          /\ DetectCommand(fb, classifier_init) = CMD_RELAX
    /\ \A i \in Calls : trace[i].ret = CMD_NONE

\* C4 - Priority law: a vector satisfying the BLINK, FOCUS and RELAX rules
\* has the candidate BLINK and is never returned as FOCUS or RELAX; given
\* on DEBOUNCE_COUNT consecutive calls it is returned as BLINK.
C4_PriorityLaw ==
    \A k \in Calls :
        /\ AllThreeRules(k)
           => /\ trace[k].detected = CMD_BLINK
              /\ trace[k].ret \in {CMD_NONE, CMD_BLINK}
        /\ ( /\ k >= DEBOUNCE_COUNT
             /\ AllThreeRules(k - DEBOUNCE_COUNT + 1)
             /\ \A j \in (k - DEBOUNCE_COUNT + 1)..k :
                   trace[j].features = trace[k].features )
           => trace[k].ret = CMD_BLINK

C4_Witness ==
    \E k \in Calls :
        /\ k > DEBOUNCE_COUNT
        /\ AllThreeRules(k)
        /\ trace[k].features = trace[k - 1].features
        /\ trace[k].ret = CMD_BLINK
        /\ trace[1].ret = CMD_NONE
        /\ state.baseline_amplitude # Rat(1, 1)

\* C5 - Sustained emission: once the counter has reached DEBOUNCE_COUNT,
\* each further consecutive call with the same candidate returns that
\* candidate again.
C5_SustainedEmission ==
    \A k \in Calls :
        ( /\ k >= 2
          /\ trace[k - 1].counter >= DEBOUNCE_COUNT
          /\ trace[k].detected = trace[k - 1].detected )
        => /\ trace[k].ret = trace[k].detected
           /\ trace[k].counter = trace[k - 1].counter + 1

C5_Witness ==
    \E k \in Calls :
        /\ k >= 3
        /\ trace[k - 1].counter >= DEBOUNCE_COUNT + 1
        /\ trace[k].detected = trace[k - 1].detected
        /\ trace[k].ret = CMD_FOCUS

\* C6 - a call that returns NONE leaves baseline_amplitude unchanged.
C6_NoneLeavesBaseline ==
    \A k \in Calls :
        trace[k].ret = CMD_NONE => trace[k].after = trace[k].before

\* C7 - BLINK never perturbs the baseline: a call whose candidate is BLINK
\* leaves baseline_amplitude unchanged, returned or not, so the same vector
\* is a BLINK candidate again in the state the call leaves, and on the next
\* call if it is presented again.
C7_BlinkKeepsBaseline ==
    /\ \A k \in Calls :
          trace[k].detected = CMD_BLINK => trace[k].after = trace[k].before
    /\ \A k \in Calls :
          ( /\ k >= 2
            /\ trace[k - 1].detected = CMD_BLINK
            /\ trace[k].features = trace[k - 1].features )
          => trace[k].detected = CMD_BLINK
    /\ (Len(trace) > 0 /\ trace[Len(trace)].detected = CMD_BLINK)
       => DetectCommand(trace[Len(trace)].features, state) = CMD_BLINK

C7_Witness ==
    /\ Len(trace) > DEBOUNCE_COUNT
    /\ \A i \in Calls : trace[i].detected = CMD_BLINK
    /\ trace[Len(trace)].ret = CMD_BLINK
    /\ trace[1].ret = CMD_NONE

\* C8 - Baseline EMA: each call that returns FOCUS or RELAX with peak A sets
\* the baseline to 0.1*A + 0.9*(baseline before the call), and the first such
\* call after classifier_init gives the baseline 0.1*A + 0.9.
C8_BaselineEma ==
    \A k \in Calls :
        trace[k].ret \in {CMD_FOCUS, CMD_RELAX}
        => /\ trace[k].after =
                 EmaStep(trace[k].features.peak_amplitude, trace[k].before)
           /\ (\A j \in 1..(k - 1) : trace[j].ret \notin {CMD_FOCUS, CMD_RELAX})
              => trace[k].after =
                    EmaStep(trace[k].features.peak_amplitude, Rat(1, 1))

(***************************************************************************)
(* Properties of feature extraction.                                       *)
(***************************************************************************)
\* C9 - Normalization invariant: if the raw alpha + beta band power exceeds
\* 0.01, the returned alpha and beta ratios lie in [0,1] and sum to 1;
\* otherwise both are exactly 0.5.
C9_Normalization ==
    \A i \in 1..Len(extraction) :
        LET e == extraction[i]
            total == RAdd(e.band.alpha, e.band.beta)
            alpha == e.features.alpha_power
            beta == e.features.beta_power
        IN  IF RGt(total, Rat(1, 100))
            THEN /\ RLe(RInt(0), alpha) /\ RLe(alpha, RInt(1))
                 /\ RLe(RInt(0), beta) /\ RLe(beta, RInt(1))
                 /\ RAdd(alpha, beta) = RInt(1)
            ELSE alpha = Rat(1, 2) /\ beta = Rat(1, 2)

C9_Witness ==
    /\ Len(extraction) = 1
    /\ RGt(RAdd(extraction[1].band.alpha, extraction[1].band.beta),
           Rat(1, 100))
    /\ RGt(extraction[1].features.alpha_power,
           extraction[1].features.beta_power)
    /\ RGt(extraction[1].features.beta_power, RInt(0))

(***************************************************************************)
(* Properties of the FFT calls.                                            *)
(***************************************************************************)
FFTCalls == 1..Len(fft_trace)

\* C10 - Transform size error: an fft_compute or fft_inverse call with a
\* size that is not a power of two (0 included) reports one ConfigError and
\* leaves every cell of its output buffer as it was.
C10_SizeError ==
    \A k \in FFTCalls :
        ~is_power_of_2(fft_trace[k].n)
        => /\ fft_trace[k].after = fft_trace[k].before
           /\ fft_trace[k].log_after =
                 Append(fft_trace[k].log_before, "ConfigError")

C10_Witness ==
    /\ Len(fft_trace) = 2
    /\ fft_trace[1].op = "fft_compute" /\ fft_trace[1].n = 3
    /\ fft_trace[2].op = "fft_inverse" /\ fft_trace[2].n = 0
    /\ fft_result = FreshBuffer /\ ifft_result = FreshBuffer
    /\ error_log = <<"ConfigError", "ConfigError">>

(***************************************************************************)
(* Properties of the LDA session.                                          *)
(***************************************************************************)
LastLda == lda_last[1]
LastIs(op) == lda_last # <<>> /\ LastLda.op = op /\ ~LastLda.crashed

\* The labels of the last call's samples.
LabelsOf(samples) == {samples[i].label : i \in 1..Len(samples)}

\* C11 - Training failure leaves the model untouched: lda_train with zero
\* samples, a null sample array or a null model returns FALSE and leaves
\* projection, threshold and is_trained as they were.
C11_TrainFailureNoMutation ==
    ( /\ LastIs("lda_train")
      /\ \/ LastLda.model_null
         \/ LastLda.samples_null
         \/ LastLda.num_samples = 0 )
    => /\ LastLda.ret = 0
       /\ model.projection = LastLda.before.projection
       /\ model.projection_null = LastLda.before.projection_null
       /\ model.threshold = LastLda.before.threshold
       /\ model.is_trained = LastLda.before.is_trained

C11_Witness ==
    /\ LastIs("lda_train")
    /\ LastLda.num_samples = 0
    /\ ~LastLda.model_null /\ ~LastLda.samples_null
    /\ LastLda.ret = 0
    /\ model.is_trained
    /\ model.threshold # RInt(0)

\* C12 - DataError for a missing class: lda_train with a non-empty sample
\* set whose samples all carry the same label reports failure and leaves no
\* trained model.
C12_MissingClassRejected ==
    ( /\ LastIs("lda_train")
      /\ ~LastLda.model_null /\ ~LastLda.samples_null
      /\ LastLda.num_samples > 0
      /\ Cardinality(LabelsOf(LastLda.samples)) = 1 )
    => /\ LastLda.ret = 0
       /\ ~model.is_trained

\* The projection value the prediction rule of C13 names.
ProjectionValue(m, features) ==
    IF m.is_trained
    THEN LET terms == [i \in 1..m.num_features |->
                          RMul(RInt(features[i]), m.projection[i])]
         IN  IF m.num_features = 1 THEN terms[1]
             ELSE RAdd(terms[1], terms[2])
    ELSE RInt(0)

\* C13 - Prediction rule: lda_predict returns 1 exactly when the projection
\* value (the dot product for a trained model, 0 for an untrained one, taken
\* without reading the projection vector) is >= the threshold; a model fresh
\* from lda_init predicts 1 for every input.
C13_PredictionRule ==
    LastIs("lda_predict")
    => /\ LastLda.ret \in {0, 1}
       /\ LastLda.ret = 1
          <=> RLe(model.threshold, ProjectionValue(model, LastLda.features))
       /\ ~model.is_trained => ~LastLda.reads_projection
       /\ LastLda.prev_op = "lda_init" => LastLda.ret = 1

C13_Witness ==
    /\ LastIs("lda_predict")
    /\ model.is_trained
    /\ model.num_features = 2
    /\ model.threshold # RInt(0)
    /\ ProjectionValue(model, LastLda.features) = model.threshold
    /\ LastLda.ret = 1

(***************************************************************************)
(* Properties of the statistics on an empty buffer.                        *)
(***************************************************************************)
\* C14 - ConfigError for an empty buffer: when extract_features (and with it
\* calculate_variance and calculate_mean) is requested on a zero-length
\* buffer, the error is reported to the caller and no undefined value, such
\* as the result of dividing by length 0, is returned.
C14_EmptyBufferReported ==
    ( /\ extraction # <<>>
      /\ Len(extraction[1].signal) = 0 )
    => /\ error_log # <<>>
       /\ extraction[1].features.variance # NaN

(***************************************************************************)
(* Properties of the transform pair.                                       *)
(***************************************************************************)
\* An fft_inverse call of a valid size that follows an fft_compute call of
\* the same size: it reads the spectrum that call left in fft_result.
RoundTrips ==
    {k \in FFTCalls :
        /\ k > 1
        /\ fft_trace[k].op = "fft_inverse"
        /\ fft_trace[k - 1].op = "fft_compute"
        /\ fft_trace[k].n = fft_trace[k - 1].n
        /\ is_power_of_2(fft_trace[k].n)}

\* C15 - Round trip: fft_inverse applied to the fft_compute of a real signal
\* x of power-of-two length gives back x in the real parts, with imaginary
\* parts zero (exactly, for the lengths 1, 2 and 4).
C15_RoundTrip ==
    \A k \in RoundTrips : \A i \in 1..fft_trace[k].n :
        fft_trace[k].after[i] =
            complex_create(RInt(fft_trace[k - 1].input[i]), RInt(0))

C15_Witness ==
    \E k \in RoundTrips :
        /\ fft_trace[k].n = 4
        /\ fft_trace[k - 1].input = <<2, -1, -1, 2>>
        /\ fft_trace[k - 1].after[2].imag # RInt(0)
        /\ fft_trace[k].after[1] = complex_create(RInt(2), RInt(0))

(***************************************************************************)
(* Properties of the power spectrum and the band power.                    *)
(***************************************************************************)
LastBand == band_last[1]

\* The last call went through calculate_band_power_fft and both arrays of
\* the power spectrum were allocated, so calculate_power_spectrum filled it.
SpectrumMade ==
    /\ band_last # <<>>
    /\ LastBand.path = "fft"
    /\ LastBand.call.spectrum.written

\* |X|^2 of a transform cell.
MagSq(c) == RAdd(RMul(c.real, c.real), RMul(c.imag, c.imag))

\* C16 - One-sided PSD scaling: for a power-of-two transform size n,
\* calculate_power_spectrum produces exactly n/2+1 bins with frequencies[i] =
\* i * (sampling_rate/n) and power[i] = c_i * |X[i]|^2 / n^2, where c_i = 1
\* for bin 0 and bin n/2 and c_i = 2 for every other bin.
C16_OneSidedScaling ==
    SpectrumMade
    => LET n == LastBand.call.fft_size
           sp == LastBand.call.spectrum
           X == LastBand.call.fft
       IN  /\ is_power_of_2(n)
           /\ sp.num_bins = n \div 2 + 1
           /\ Len(sp.power) = n \div 2 + 1
           /\ Len(sp.frequencies) = n \div 2 + 1
           /\ \A i \in 0..(n \div 2) :
                 /\ sp.frequencies[i + 1] =
                       Rat(i * LastBand.call.sampling_rate, n)
                 /\ sp.power[i + 1] =
                       RDiv(RMul(RInt(IF i = 0 \/ i = n \div 2 THEN 1 ELSE 2),
                                 MagSq(X[i + 1])),
                            RInt(n * n))

C16_Witness ==
    /\ SpectrumMade
    /\ LastBand.call.fft_size = 4
    /\ LastBand.call.spectrum.num_bins = 3
    /\ LastBand.call.spectrum.power[3] # RInt(0)
    /\ LastBand.call.spectrum.power[2] =
          RMul(RInt(2), LastBand.call.spectrum.power[3])

\* The bins of a spectrum whose frequency lies in [low_freq, high_freq].
BinsIn(sp, low_freq, high_freq) ==
    {b \in 1..sp.num_bins :
        /\ RLe(RInt(low_freq), sp.frequencies[b])
        /\ RLe(sp.frequencies[b], RInt(high_freq))}

RECURSIVE SumOver(_, _)
SumOver(power, bins) ==
    IF bins = {} THEN RInt(0)
    ELSE LET b == CHOOSE x \in bins : TRUE
         IN  RAdd(power[b], SumOver(power, bins \ {b}))

\* C17 - Band power is an inclusive sum: calculate_band_power_psd returns
\* frequency_resolution times the sum of power[i] over exactly the bins
\* with low_freq <= frequencies[i] <= high_freq, and 0 for a null spectrum;
\* so a bin at exactly 13 Hz is counted both in the alpha band [8,13] and in
\* the beta band [13,30].
C17_InclusiveBandSum ==
    /\ SpectrumMade
       => LET sp == LastBand.call.spectrum
              band == LastBand.band
              at13 == {b \in 1..sp.num_bins : sp.frequencies[b] = RInt(13)}
              alpha == calculate_band_power_psd(
                           sp, FALSE, ALPHA_LOW_FREQ, ALPHA_HIGH_FREQ,
                           CHOOSE ub \in UBOutcomes : TRUE).value
              beta == calculate_band_power_psd(
                          sp, FALSE, BETA_LOW_FREQ, BETA_HIGH_FREQ,
                          CHOOSE ub \in UBOutcomes : TRUE).value
          IN  /\ LastBand.ret =
                    RMul(sp.frequency_resolution,
                         SumOver(sp.power,
                                 BinsIn(sp, band.low_freq, band.high_freq)))
              /\ \A b \in at13 :
                    /\ RGe(alpha, RMul(sp.frequency_resolution, sp.power[b]))
                    /\ RGe(beta, RMul(sp.frequency_resolution, sp.power[b]))
    /\ (band_last # <<>> /\ LastBand.op = "calculate_band_power_psd")
       => /\ LastBand.ret = RInt(0)
          /\ ~LastBand.call.null_read

C17_Witness ==
    /\ SpectrumMade
    /\ LastBand.band.high_freq = ALPHA_HIGH_FREQ
    /\ \E b \in 1..LastBand.call.spectrum.num_bins :
          /\ LastBand.call.spectrum.frequencies[b] = RInt(13)
          /\ LastBand.call.spectrum.power[b] # RInt(0)
          /\ LastBand.ret =
                RMul(LastBand.call.spectrum.frequency_resolution,
                     LastBand.call.spectrum.power[b])

\* How often a buffer occurs in the sequence of buffers passed to free.
TimesFreed(freed, buffer) ==
    Cardinality({i \in 1..Len(freed) : freed[i] = buffer})

\* C19 - Buffer ownership of the composed path: on every path of
\* calculate_band_power_fft, under every combination of allocation failures,
\* the call returns with each buffer it or calculate_power_spectrum
\* allocated freed exactly once, none freed twice or leaked, and the caller's
\* input buffer unwritten.
C19_BuffersFreedOnce ==
    (band_last # <<>> /\ LastBand.op = "calculate_band_power_fft")
    => /\ ~LastBand.call.crashed
       /\ \A buffer \in LastBand.call.allocated :
             TimesFreed(LastBand.call.freed, buffer) = 1
       /\ \A i \in 1..Len(LastBand.call.freed) :
             LastBand.call.freed[i] \in LastBand.call.allocated
       /\ LastBand.call.input = band_input.signal

\* C20 - Band-power strategy selection: calculate_band_power takes the FFT
\* path when USE_FFT_BANDPOWER is 1 and the time-domain path when
\* USE_FFT_BANDPOWER is set to 0.
C20_StrategySelection ==
    ( /\ band_last # <<>>
      /\ LastBand.op = "calculate_band_power"
      /\ band_input.build.defined )
    => /\ band_input.build.value = 1 => LastBand.path = "fft"
       /\ band_input.build.value = 0 => LastBand.path = "time_domain"

(***************************************************************************)
(* Properties of predict_impairments.                                      *)
(***************************************************************************)
LastHealth == health_last[1]

\* C18 - Attention ratio guard: predict_impairments never divides by a
\* beta_power <= 0.01; for such a beta_power the ratio is 10.0 and
\* attention_deficit is IMPAIRED; for beta_power > 0.01 attention_deficit is
\* NORMAL if theta/beta <= 1.5, BORDERLINE if 1.5 < theta/beta <= 2.0,
\* IMPAIRED otherwise; the result depends only on the features of that call.
C18_AttentionGuard ==
    health_last # <<>>
    => LET theta == LastHealth.features.theta_power
           beta == LastHealth.features.beta_power
           small == RLe(beta, Rat(1, 100))
       IN  /\ \A d \in LastHealth.divisors : RGt(d, Rat(1, 100))
           /\ small => /\ LastHealth.divisors = {}
                       /\ predictions.attention_deficit = PRED_IMPAIRED
           /\ ~small =>
                 predictions.attention_deficit =
                    IF RLe(theta, RMul(Rat(3, 2), beta)) THEN PRED_NORMAL
                    ELSE IF RLe(theta, RMul(RInt(2), beta))
                    THEN PRED_BORDERLINE
                    ELSE PRED_IMPAIRED

C18_Witness ==
    /\ health_last # <<>>
    /\ LastHealth.features.beta_power = Rat(1, 100)
    /\ LastHealth.features.theta_power = RInt(0)
    /\ LastHealth.before.attention_deficit = PRED_NORMAL
    /\ LastHealth.divisors = {}
    /\ predictions.attention_deficit = PRED_IMPAIRED

(***************************************************************************)
(* Properties of bit_reverse.                                              *)
(***************************************************************************)
\* C21 - Bit-reversal is a permutation: for every bit width b and every n in
\* 0..2^b-1, bit_reverse(n, b) is in 0..2^b-1 and bit_reverse applied twice
\* gives n back; hence the permutation loop of a transform of size N = 2^b
\* writes every output index 0..N-1 exactly once and every butterfly index
\* k+j+m2 stays below N.
C21_BitReversePermutation ==
    bitrev_last # <<>>
    => LET N == Shl(1, bitrev_input.bits)
           r == bitrev_last[1]
       IN  /\ r.reversed \in 0..(N - 1)
           /\ r.twice = bitrev_input.n
           /\ \A j \in 0..(N - 1) :
                 Cardinality({i \in 0..(N - 1) : r.writes[i] = j}) = 1
           /\ \A x \in r.butterflies : x < N

C21_Witness ==
    /\ bitrev_last # <<>>
    /\ bitrev_input = [n |-> 3, bits |-> 3]
    /\ bitrev_last[1].reversed = 6
    /\ bitrev_last[1].twice = 3
    /\ 7 \in bitrev_last[1].butterflies

(***************************************************************************)
(* Properties of the demo loops.                                           *)
(***************************************************************************)
\* C22 - Buzzer display ordering: in each iteration of run_demo_scenario and
\* run_interactive_demo the buzzer_active flag raised by executing a BLINK
\* command is reset only after the output state of that iteration has been
\* displayed, so the display that follows a BLINK command shows the buzzer
\* active.
C22_BuzzerShownAfterBlink ==
    (demo_last # <<>> /\ demo_last[1].detected = CMD_BLINK)
    => /\ demo_last[1].executed.buzzer_active
       /\ demo_last[1].shown.buzzer

(***************************************************************************)
(* Further properties of the classifier session.                           *)
(***************************************************************************)
\* The calls before call k whose candidate differs from that of call k.
Breaks(k) == {i \in 1..(k - 1) : trace[i].detected # trace[k].detected}

\* The length of the maximal run of identical candidates ending at call k.
RunLength(k) ==
    IF Breaks(k) = {} THEN k
    ELSE k - (CHOOSE i \in Breaks(k) : \A j \in Breaks(k) : j <= i)

\* C23 - Counter is the run length: after any non-empty sequence of
\* classify_command calls from classifier_init, debounce_counter is the
\* length of the maximal run of identical candidates ending at the latest
\* call (so it is at least 1) and last_command is the latest candidate,
\* whether or not anything was emitted.
C23_CounterIsRunLength ==
    trace # <<>>
    => /\ state.debounce_counter = RunLength(Len(trace))
       /\ state.debounce_counter >= 1
       /\ state.last_command = trace[Len(trace)].detected

C23_Witness ==
    /\ Len(trace) = 5
    /\ trace[1].detected = CMD_NONE
    /\ trace[2].detected = CMD_FOCUS
    /\ trace[5].detected = CMD_FOCUS
    /\ trace[1].ret = CMD_NONE
    /\ trace[5].ret = CMD_FOCUS
    /\ state.debounce_counter = 4

\* The seed 1.0 and the peak amplitudes presented so far.
HullPoints ==
    {RInt(1)} \cup {trace[i].features.peak_amplitude : i \in 1..Len(trace)}

\* C24 - Baseline stays in the hull of its inputs: after any sequence of
\* classify_command calls from classifier_init with non-negative peak
\* amplitudes, baseline_amplitude lies between the minimum and the maximum
\* of 1.0 and all peak amplitudes presented so far, and stays strictly
\* positive, so the BLINK test never degenerates to peak > 0.
C24_BaselineInHull ==
    (\A p \in HullPoints : RGe(p, RInt(0)))
    => /\ \E lo \in HullPoints : RLe(lo, state.baseline_amplitude)
       /\ \E hi \in HullPoints : RLe(state.baseline_amplitude, hi)
       /\ RGt(state.baseline_amplitude, RInt(0))
       /\ RGt(RMul(BLINK_THRESHOLD, state.baseline_amplitude), RInt(0))

C24_Witness ==
    /\ Len(trace) = 5
    /\ \A i \in 1..5 : trace[i].features.peak_amplitude = RInt(0)
    /\ state.baseline_amplitude = Rat(6561, 10000)

(***************************************************************************)
(* Properties of the pipeline on extracted features.                       *)
(***************************************************************************)
\* The window is an all-zero buffer, whose band powers are zero.
DegenerateWindow ==
    /\ \A i \in 1..Len(window.signal) : window.signal[i] = 0
    /\ window.band.alpha = RInt(0)
    /\ window.band.beta = RInt(0)

\* C25 - FOCUS and RELAX are mutually exclusive on extracted features: for
\* any feature vector produced by extract_features at most one of the FOCUS
\* rule (beta > 0.6) and the RELAX rule (alpha > 0.6) holds, and the neutral
\* vector of an all-zero buffer satisfies neither and, its peak being 0,
\* never yields any command for any number of calls.
C25_FocusRelaxExclusive ==
    extraction # <<>>
    => LET f == extraction[1].features
       IN  /\ ~(RGt(f.beta_power, Rat(6, 10)) /\ RGt(f.alpha_power, Rat(6, 10)))
           /\ ~(FocusRule(f) /\ RelaxRule(f))
           /\ DegenerateWindow
              => /\ f.alpha_power = Rat(1, 2)
                 /\ f.beta_power = Rat(1, 2)
                 /\ f.peak_amplitude = RInt(0)
                 /\ ~FocusRule(f) /\ ~RelaxRule(f)
                 /\ \A k \in 1..Len(trace) :
                       /\ trace[k].detected = CMD_NONE
                       /\ trace[k].ret = CMD_NONE

C25_Witness ==
    /\ extraction # <<>>
    /\ DegenerateWindow
    /\ Len(window.signal) = 2
    /\ Len(trace) = 5
    /\ trace[5].ret = CMD_NONE
    /\ state.debounce_counter = 5

\* C26 - Extracted features are completely defined for their consumers:
\* every field of features_t that predict_impairments reads has been
\* assigned by extract_features, so predict_impairments on the output of
\* extract_features never reads an unassigned field.
C26_FeaturesDefined ==
    pipe_last # <<>> => pipe_last[1].reads \subseteq pipe_last[1].assigned


\* C27 - Allocation failure inside calculate_power_spectrum: when the power
\* array, the frequencies array or both could not be allocated,
\* calculate_band_power_fft returns 0 and nothing reads through a null power
\* or frequencies pointer.
C27_SpectrumAllocationFailureSafe ==
    ( /\ band_last # <<>>
      /\ LastBand.op = "calculate_band_power_fft"
      /\ {"padded_signal", "fft_result"} \subseteq LastBand.call.allocated
      /\ \/ LastBand.call.spectrum.power_null
         \/ LastBand.call.spectrum.frequencies_null )
    => /\ ~LastBand.call.null_read
       /\ ~LastBand.call.crashed
       /\ LastBand.ret = RInt(0)


\* C28 - lda_train never writes through a null projection: for a model whose
\* projection is NULL (the allocation in lda_init failed, or lda_free ran)
\* and whose num_features is positive, lda_train with a non-empty sample set
\* returns FALSE without storing through projection and without setting
\* is_trained.
C28_NullProjectionRejected ==
    ( /\ lda_last # <<>>
      /\ LastLda.op = "lda_train"
      /\ ~LastLda.model_null
      /\ ~LastLda.samples_null
      /\ LastLda.num_samples > 0
      /\ LastLda.before.projection_null
      /\ LastLda.before.num_features > 0 )
    => /\ ~LastLda.null_write
       /\ ~LastLda.crashed
       /\ LastLda.ret = 0
       /\ ~model.is_trained


(***************************************************************************)
(* Properties of the data loader.                                          *)
(***************************************************************************)
\* C29 - set_data_directory takes effect in every call order: after
\* set_data_directory(p) with a non-null p shorter than MAX_PATH_LENGTH, the
\* next get_dataset_path(name) for a name without a path separator returns
\* TRUE with the path p/name, whatever data_loader_init,
\* data_loader_cleanup and set_data_directory calls came before.
C29_DirectoryTakesEffect ==
    \A k \in 2..Len(loader_trace) :
       ( /\ loader_trace[k].op = "get_dataset_path"
         /\ ~loader_trace[k].name_null
         /\ ~loader_trace[k].output_null
         /\ ~strchr(loader_trace[k].name, "/")
         /\ ~strchr(loader_trace[k].name, "\\")
         /\ loader_trace[k - 1].op = "set_data_directory"
         /\ ~loader_trace[k - 1].path_null
         /\ Len(loader_trace[k - 1].path) < MAX_PATH_LENGTH )
       => /\ loader_trace[k].ret = TRUE
          /\ loader_trace[k].output =
                loader_trace[k - 1].path \o <<"/">> \o loader_trace[k].name


(***************************************************************************)
(* Properties of the preprocessing temporaries.                            *)
(***************************************************************************)
\* C30 - Preprocessing stays inside its temporaries: for every length the
\* interfaces accept, preprocess_signal and bandpass_filter read and write
\* only indices below WINDOW_SIZE of their WINDOW_SIZE-element temporary
\* buffers; no call writes past the end of a temporary.
C30_TemporariesInBounds ==
    prep_last # <<>>
    => /\ \A i \in prep_last[1].temporary_written : i < WINDOW_SIZE
       /\ \A i \in prep_last[1].temporary_read : i < WINDOW_SIZE

====
